---- MODULE Spec2Model ----
(***************************************************************************)
(* A model of the people-count estimation endpoint (api/estimate.js, the   *)
(* xAI variant with the server-side self-validation).                      *)
(*                                                                         *)
(* JavaScript numbers are modelled as exact decimals: a sign, a natural    *)
(* numerator and a decimal exponent, plus NaN and the two infinities.      *)
(* The rounding error of IEEE-754 doubles (a few ulps per operation) is    *)
(* the one thing the number model leaves out; Math.PI is the decimal       *)
(* 3.141592653589793 that the double prints as.                            *)
(* Naturals are sequences of base-10^4 digits, least significant first,    *)
(* because the model checker's own integers are 32 bits wide and the       *)
(* counts of a 40,075 km circle are not.                                   *)
(***************************************************************************)
EXTENDS Integers, Sequences, FiniteSets, TLC

\* ------------------------------------------------------------------------
\* Natural numbers of any size
\* ------------------------------------------------------------------------
Base == 10^4

RECURSIVE BNorm(_)
BNorm(a) ==
  IF a = <<>> THEN a
  ELSE IF a[Len(a)] = 0 THEN BNorm(SubSeq(a, 1, Len(a) - 1)) ELSE a

RECURSIVE BFromInt(_)
BFromInt(n) == IF n = 0 THEN <<>> ELSE <<n % Base>> \o BFromInt(n \div Base)

BHead(a) == IF a = <<>> THEN 0 ELSE Head(a)
BTail(a) == IF a = <<>> THEN <<>> ELSE Tail(a)

RECURSIVE BAddC(_, _, _)
BAddC(a, b, c) ==
  IF a = <<>> /\ b = <<>> THEN (IF c = 0 THEN <<>> ELSE <<c>>)
  ELSE LET x == BHead(a) + BHead(b) + c
       IN  <<x % Base>> \o BAddC(BTail(a), BTail(b), x \div Base)

BAdd(a, b) == BAddC(a, b, 0)

\* -1, 0, 1 as a is less than, equal to, greater than b
RECURSIVE BCmpFrom(_, _, _)
BCmpFrom(a, b, i) ==
  IF i = 0 THEN 0
  ELSE IF a[i] < b[i] THEN -1
  ELSE IF a[i] > b[i] THEN 1
  ELSE BCmpFrom(a, b, i - 1)

BCmp(a, b) ==
  IF Len(a) < Len(b) THEN -1
  ELSE IF Len(a) > Len(b) THEN 1
  ELSE BCmpFrom(a, b, Len(a))

\* a - b for a >= b
RECURSIVE BSubC(_, _, _)
BSubC(a, b, c) ==
  IF a = <<>> THEN <<>>
  ELSE LET x == BHead(a) - BHead(b) - c
       IN  IF x < 0 THEN <<x + Base>> \o BSubC(BTail(a), BTail(b), 1)
           ELSE <<x>> \o BSubC(BTail(a), BTail(b), 0)

BSub(a, b) == BNorm(BSubC(a, b, 0))

\* a * k for a small k (k < 2 * 10^5)
RECURSIVE BMulSmallC(_, _, _)
BMulSmallC(a, k, c) ==
  IF a = <<>> THEN BFromInt(c)
  ELSE LET x == Head(a) * k + c
       IN  <<x % Base>> \o BMulSmallC(Tail(a), k, x \div Base)

BMulSmall(a, k) == BNorm(BMulSmallC(a, k, 0))

RECURSIVE BMul(_, _)
BMul(a, b) ==
  IF a = <<>> \/ b = <<>> THEN <<>>
  ELSE BNorm(BAdd(BMulSmall(a, Head(b)), <<0>> \o BMul(a, Tail(b))))

\* floor(a / d) for a small d (d < 2 * 10^5), most significant digit first
RECURSIVE BDivSmallFrom(_, _, _, _)
BDivSmallFrom(a, d, i, r) ==
  IF i = 0 THEN <<>>
  ELSE LET x == r * Base + a[i]
       IN  BDivSmallFrom(a, d, i - 1, x % d) \o <<x \div d>>

BDivSmall(a, d) == BNorm(BDivSmallFrom(a, d, Len(a), 0))

RECURSIVE BModSmallFrom(_, _, _, _)
BModSmallFrom(a, d, i, r) ==
  IF i = 0 THEN r ELSE BModSmallFrom(a, d, i - 1, (r * Base + a[i]) % d)

BModSmall(a, d) == BModSmallFrom(a, d, Len(a), 0)

RECURSIVE BMulPow10(_, _)
BMulPow10(a, e) ==
  IF a = <<>> \/ e = 0 THEN a
  ELSE IF e >= 4 THEN BMulPow10(<<0>> \o a, e - 4)
  ELSE BMulSmall(a, 10^e)

RECURSIVE BDivPow10(_, _)
BDivPow10(a, e) ==
  IF a = <<>> \/ e = 0 THEN a
  ELSE IF e >= 4 THEN BDivPow10(Tail(a), e - 4)
  ELSE BDivSmall(a, 10^e)

\* ------------------------------------------------------------------------
\* JavaScript numbers: k = "fin" is (-1)^neg * n / 10^e
\* ------------------------------------------------------------------------
NaN == [k |-> "nan", neg |-> FALSE, n |-> <<>>, e |-> 0]
PosInfinity == [k |-> "inf", neg |-> FALSE, n |-> <<>>, e |-> 0]
NegInfinity == [k |-> "inf", neg |-> TRUE, n |-> <<>>, e |-> 0]

RECURSIVE NumNorm(_)
NumNorm(x) ==
  IF x.k # "fin" THEN x
  ELSE IF x.n = <<>> THEN [k |-> "fin", neg |-> FALSE, n |-> <<>>, e |-> 0]
  ELSE IF x.e > 0 /\ x.n[1] % 10 = 0
       THEN NumNorm([x EXCEPT !.n = BDivSmall(x.n, 10), !.e = x.e - 1])
  ELSE x

\* the number i / 10^e for an integer i
NumDec(i, e) ==
  NumNorm([k |-> "fin", neg |-> i < 0,
           n |-> BFromInt(IF i < 0 THEN 0 - i ELSE i), e |-> e])

NumInt(i) ==
  [k |-> "fin", neg |-> i < 0, n |-> BFromInt(IF i < 0 THEN 0 - i ELSE i),
   e |-> 0]

NumOfBig(b) == [k |-> "fin", neg |-> FALSE, n |-> b, e |-> 0]

IsNaN(x) == x.k = "nan"
IsFiniteNum(x) == x.k = "fin"
IsZero(x) == x.k = "fin" /\ x.n = <<>>
IsInteger(x) == x.k = "fin" /\ x.e = 0

NumNeg(x) ==
  IF x.k = "nan" \/ IsZero(x) THEN x ELSE [x EXCEPT !.neg = ~x.neg]

MaxInt(a, b) == IF a > b THEN a ELSE b

\* the numerator of the finite x over the denominator 10^s, s >= x.e
Scaled(x, s) == BMulPow10(x.n, s - x.e)

\* the comparison c of two magnitudes, for two numbers of the sign neg
Signed(neg, c) == IF neg THEN 0 - c ELSE c

CmpFinite(x, y, s) == Signed(x.neg, BCmp(Scaled(x, s), Scaled(y, s)))

\* -1, 0, 1 for two numbers that are not NaN
NumCmp(x, y) ==
  IF x.k = "inf" \/ y.k = "inf"
  THEN IF x = y THEN 0
       ELSE IF x.k = "inf" THEN (IF x.neg THEN -1 ELSE 1)
       ELSE (IF y.neg THEN 1 ELSE -1)
  ELSE IF x.neg # y.neg THEN (IF x.neg THEN -1 ELSE 1)
  ELSE CmpFinite(x, y, MaxInt(x.e, y.e))

\* the comparisons of the language: false when an operand is NaN
NumLt(x, y) == ~IsNaN(x) /\ ~IsNaN(y) /\ NumCmp(x, y) < 0
NumGt(x, y) == NumLt(y, x)
NumLe(x, y) == ~IsNaN(x) /\ ~IsNaN(y) /\ NumCmp(x, y) <= 0
NumGe(x, y) == NumLe(y, x)

NumMul(x, y) ==
  IF IsNaN(x) \/ IsNaN(y) THEN NaN
  ELSE IF x.k = "inf" \/ y.k = "inf"
  THEN IF IsZero(x) \/ IsZero(y) THEN NaN
       ELSE IF x.neg # y.neg THEN NegInfinity ELSE PosInfinity
  ELSE NumNorm([k |-> "fin", neg |-> x.neg # y.neg,
                n |-> BMul(x.n, y.n), e |-> x.e + y.e])

\* the sum of two numerators a and b that carry the signs xneg and yneg:
\* its sign and its magnitude, given c = BCmp(a, b)
SumOfSigned(xneg, a, yneg, b, c) ==
  [neg |-> IF xneg = yneg \/ c >= 0 THEN xneg ELSE yneg,
   n |-> IF xneg = yneg THEN BAdd(a, b)
         ELSE IF c >= 0 THEN BSub(a, b) ELSE BSub(b, a)]

SumOfScaled(xneg, a, yneg, b) == SumOfSigned(xneg, a, yneg, b, BCmp(a, b))

FiniteOf(sum, s) ==
  NumNorm([k |-> "fin", neg |-> sum.neg, n |-> sum.n, e |-> s])

AddFinite(x, y, s) ==
  FiniteOf(SumOfScaled(x.neg, Scaled(x, s), y.neg, Scaled(y, s)), s)

NumAdd(x, y) ==
  IF IsNaN(x) \/ IsNaN(y) THEN NaN
  ELSE IF x.k = "inf" /\ y.k = "inf" THEN (IF x.neg = y.neg THEN x ELSE NaN)
  ELSE IF x.k = "inf" THEN x
  ELSE IF y.k = "inf" THEN y
  ELSE AddFinite(x, y, MaxInt(x.e, y.e))

NumSub(x, y) == NumAdd(x, NumNeg(y))

\* x / 10^d
NumDivPow10(x, d) == IF x.k # "fin" THEN x ELSE NumNorm([x EXCEPT !.e = x.e + d])

MathMax(x, y) ==
  IF IsNaN(x) \/ IsNaN(y) THEN NaN ELSE IF NumCmp(x, y) >= 0 THEN x ELSE y

MathMin(x, y) ==
  IF IsNaN(x) \/ IsNaN(y) THEN NaN ELSE IF NumCmp(x, y) <= 0 THEN x ELSE y

\* the magnitude of floor(x + 0.5) for a finite x with decimals, where
\* h is one half over the denominator of x
RoundedMagnitude(x, h) ==
  IF ~x.neg THEN BDivPow10(BAdd(x.n, h), x.e)
  ELSE IF BCmp(x.n, h) <= 0 THEN <<>>
  ELSE BDivPow10(BAdd(BSub(x.n, h), BSub(BMulPow10(<<1>>, x.e), <<1>>)), x.e)

\* Math.round: floor(x + 0.5)
MathRound(x) ==
  IF x.k # "fin" \/ x.e = 0 THEN x
  ELSE NumNorm([k |-> "fin", neg |-> x.neg,
                n |-> RoundedMagnitude(x, BMulPow10(<<5>>, x.e - 1)),
                e |-> 0])

\* ------------------------------------------------------------------------
\* JavaScript strings: sequences of UTF-16 code units
\* ------------------------------------------------------------------------
\* the printable ASCII characters but the grave accent (96), by code
AsciiTo95 ==
  " !\"#$%&'()*+,-./0123456789:;<=>?@ABCDEFGHIJKLMNOPQRSTUVWXYZ[\\]^_"
AsciiFrom97 == "abcdefghijklmnopqrstuvwxyz{|}~"

CharCode(c) ==
  IF \E i \in 1..Len(AsciiTo95) : SubSeq(AsciiTo95, i, i) = c
  THEN 31 + (CHOOSE i \in 1..Len(AsciiTo95) : SubSeq(AsciiTo95, i, i) = c)
  ELSE 96 + (CHOOSE i \in 1..Len(AsciiFrom97) : SubSeq(AsciiFrom97, i, i) = c)

\* the text of an ASCII literal
S(str) == [i \in 1..Len(str) |-> CharCode(SubSeq(str, i, i))]

WhiteSpace == {9, 10, 13, 32}

RECURSIVE TrimStart(_)
TrimStart(s) ==
  IF s # <<>> /\ Head(s) \in WhiteSpace THEN TrimStart(Tail(s)) ELSE s

RECURSIVE TrimEnd(_)
TrimEnd(s) ==
  IF s # <<>> /\ s[Len(s)] \in WhiteSpace
  THEN TrimEnd(SubSeq(s, 1, Len(s) - 1)) ELSE s

\* String.prototype.trim
Trim(s) == TrimEnd(TrimStart(s))

\* whether t occurs in s at position i
OccursAt(s, t, i) == t = <<>> \/ (s[i] = t[1] /\ SubSeq(s, i, i + Len(t) - 1) = t)

\* String.prototype.indexOf and lastIndexOf, 1-based, 0 for "not found"
Occurrences(s, t) == {i \in 1..(Len(s) - Len(t) + 1) : OccursAt(s, t, i)}
First(hits) ==
  IF hits = {} THEN 0 ELSE CHOOSE i \in hits : \A j \in hits : i <= j
Last(hits) ==
  IF hits = {} THEN 0 ELSE CHOOSE i \in hits : \A j \in hits : i >= j

IndexOf(s, t) == First(Occurrences(s, t))

LastIndexOf(s, t) == Last(Occurrences(s, t))

Includes(s, t) == \E i \in 1..(Len(s) - Len(t) + 1) : OccursAt(s, t, i)

IncludesAny(s, words) == \E w \in words : Includes(s, w)

StartsWith(s, t) == Len(s) >= Len(t) /\ SubSeq(s, 1, Len(t)) = t

\* String.prototype.toLowerCase on the letters A-Z (the other characters of
\* the model's texts have no lower case)
ToLowerCase(s) == [i \in 1..Len(s) |-> IF s[i] \in 65..90 THEN s[i] + 32 ELSE s[i]]

\* n copies of the code unit c
Repeat(c, n) == [i \in 1..n |-> c]

IsDigit(c) == c \in 48..57
AllDigits(s) == \A i \in 1..Len(s) : IsDigit(s[i])

RECURSIVE BDigits(_)
BDigits(b) ==
  IF b = <<>> THEN <<>> ELSE BDigits(BDivSmall(b, 10)) \o <<48 + BModSmall(b, 10)>>

RECURSIVE BFromDigits(_, _)
BFromDigits(s, acc) ==
  IF s = <<>> THEN acc
  ELSE BFromDigits(Tail(s), BAdd(BMulSmall(acc, 10), BFromInt(Head(s) - 48)))

TextNaN == S("NaN")
TextInfinity == S("Infinity")

\* Number.prototype.toString of a number printed without an exponent
MinusSign(neg) == IF neg THEN <<45>> ELSE <<>>

\* the digits d with the zeros that a number of e decimals needs in front
ZeroPadded(d, e) == IF Len(d) > e THEN d ELSE Repeat(48, e + 1 - Len(d)) \o d

\* the digits p with a point before the last e of them
Pointed(p, e) ==
  IF e = 0 THEN p
  ELSE SubSeq(p, 1, Len(p) - e) \o <<46>> \o SubSeq(p, Len(p) - e + 1, Len(p))

NumberToString(x) ==
  IF x.k = "nan" THEN TextNaN
  ELSE MinusSign(x.neg)
       \o (IF x.k = "inf" THEN TextInfinity
           ELSE Pointed(ZeroPadded(BDigits(x.n), x.e), x.e))

\* StringToNumber for the decimal literals (sign, digits, one point) and
\* Infinity; every other text is NaN
\* the number of the integer part ip and the fraction part fp
ParseParts(neg, ip, fp) ==
  IF AllDigits(ip) /\ AllDigits(fp) /\ Len(ip) + Len(fp) > 0
  THEN NumNorm([k |-> "fin", neg |-> neg,
                n |-> BNorm(BFromDigits(ip \o fp, <<>>)), e |-> Len(fp)])
  ELSE NaN

\* the number of the unsigned text u whose first point is at dot
ParseAround(neg, u, dot) ==
  ParseParts(neg,
             IF dot = 0 THEN u ELSE SubSeq(u, 1, dot - 1),
             IF dot = 0 THEN <<>> ELSE SubSeq(u, dot + 1, Len(u)))

ParseUnsigned(neg, u) ==
  IF u = TextInfinity THEN (IF neg THEN NegInfinity ELSE PosInfinity)
  ELSE ParseAround(neg, u, IndexOf(u, <<46>>))

ParseTrimmed(t) ==
  IF t = <<>> THEN NumInt(0)
  ELSE ParseUnsigned(StartsWith(t, <<45>>),
                     IF t[1] \in {45, 43} THEN Tail(t) ELSE t)

ParseNumber(s) == ParseTrimmed(Trim(s))

\* ------------------------------------------------------------------------
\* JavaScript values: t is the type, s the text of a string, n the value of
\* a number or boolean, f the properties of an object, a the elements of an
\* array.  "badobject" is an object whose toString is not a function and
\* whose valueOf is Object.prototype's, JSON.parse('{"toString":1}'):
\* converting it to a string or a number throws a TypeError.
\* ------------------------------------------------------------------------
NoProps == [x \in {} |-> 0]

Undef == [t |-> "undefined", s |-> <<>>, n |-> NaN, f |-> NoProps, a |-> <<>>]
Null == [t |-> "null", s |-> <<>>, n |-> NaN, f |-> NoProps, a |-> <<>>]
Str(s) == [t |-> "string", s |-> s, n |-> NaN, f |-> NoProps, a |-> <<>>]
Num(x) == [t |-> "number", s |-> <<>>, n |-> x, f |-> NoProps, a |-> <<>>]
Bool(b) ==
  [t |-> "boolean", s |-> <<>>, n |-> NumInt(IF b THEN 1 ELSE 0), f |-> NoProps,
   a |-> <<>>]
Obj(f) == [t |-> "object", s |-> <<>>, n |-> NaN, f |-> f, a |-> <<>>]
Arr(a) == [t |-> "array", s |-> <<>>, n |-> NaN, f |-> NoProps, a |-> a]
BadObj ==
  [t |-> "badobject", s |-> <<>>, n |-> NaN, f |-> [toString |-> Num(NumInt(1))],
   a |-> <<>>]

\* v?.key
Get(v, key) ==
  IF v.t \in {"object", "badobject"} /\ key \in DOMAIN v.f THEN v.f[key] ELSE Undef

\* a ?? b
Coalesce(a, b) == IF a.t \in {"undefined", "null"} THEN b ELSE a

Truthy(v) ==
  CASE v.t \in {"undefined", "null"} -> FALSE
    [] v.t \in {"number", "boolean"} -> ~IsNaN(v.n) /\ ~IsZero(v.n)
    [] v.t = "string" -> v.s # <<>>
    [] OTHER -> TRUE

\* a || b
Or(a, b) == IF Truthy(a) THEN a ELSE b

\* whether String(v), Number(v) and v.toString() throw
ConversionThrows(v) == v.t = "badobject"

TextUndefined == S("undefined")
TextNull == S("null")
TextTrue == S("true")
TextFalse == S("false")
TextObject == S("[object Object]")

\* String(v), for a v whose conversion does not throw
RECURSIVE StringOf(_)
RECURSIVE JoinArray(_)
JoinArray(a) ==
  IF a = <<>> THEN <<>>
  ELSE (IF Head(a).t \in {"undefined", "null"} THEN <<>> ELSE StringOf(Head(a)))
       \o (IF Len(a) > 1 THEN <<44>> \o JoinArray(Tail(a)) ELSE <<>>)

StringOf(v) ==
  CASE v.t = "undefined" -> TextUndefined
    [] v.t = "null" -> TextNull
    [] v.t = "string" -> v.s
    [] v.t = "number" -> NumberToString(v.n)
    [] v.t = "boolean" -> (IF IsZero(v.n) THEN TextFalse ELSE TextTrue)
    [] v.t = "array" -> JoinArray(v.a)
    [] OTHER -> TextObject

\* Number(v), for a v whose conversion does not throw
NumberOf(v) ==
  CASE v.t = "undefined" -> NaN
    [] v.t = "null" -> NumInt(0)
    [] v.t \in {"number", "boolean"} -> v.n
    [] v.t = "string" -> ParseNumber(v.s)
    [] v.t = "array" -> ParseNumber(JoinArray(v.a))
    [] OTHER -> NaN

\* a call that may throw: its value, or the fact that it threw
Ok(v) == [threw |-> FALSE, v |-> v]
Threw == [threw |-> TRUE, v |-> Undef]

\* ------------------------------------------------------------------------
\* Schema and looseNormalize
\* ------------------------------------------------------------------------
MaxAddressLen == 300
MaxFeatureLen == 140
MinRadius == 10
MaxRadius == 40075000
DefaultRadius == 500

\* the Japanese crowd labels: aiteiru (empty), futsuu (normal), konzatsu
\* (crowded)
JpEmpty == <<31354, 12356, 12390, 12356, 12427>>
JpNormal == <<26222, 36890>>
JpCrowded == <<28151, 38609>>
TextEmpty == S("empty")
TextNormal == S("normal")
TextCrowded == S("crowded")
TextUnknown == S("unknown")
TextPeople == S("people")

CrowdJp == {JpEmpty, JpNormal, JpCrowded}
CrowdInternal == {TextEmpty, TextNormal, TextCrowded}

\* a transform that takes the label for "crowded" to "normal"
CrowdTransformConfused(v) ==
  IF v = JpEmpty THEN TextEmpty
  ELSE IF v = JpNormal THEN TextNormal
  ELSE IF v = JpCrowded THEN TextNormal
  ELSE v

\* the transform of the crowd union: a Japanese label to its internal code
CrowdTransform(v) ==
  IF v = JpEmpty THEN TextEmpty
  ELSE IF v = JpNormal THEN TextNormal
  ELSE IF v = JpCrowded THEN TextCrowded
  ELSE v

\* z.string().transform(trim).pipe(z.string().min(1).max(max))
TrimmedStringOk(v, max) ==
  v.t = "string" /\ Len(Trim(v.s)) >= 1 /\ Len(Trim(v.s)) <= max

\* z.coerce.number().int().min(10).max(40_075_000), on the coerced number
RadiusOk(r) ==
  /\ IsInteger(r)
  /\ NumGe(r, NumInt(MinRadius))
  /\ NumLe(r, NumInt(MaxRadius))

\* z.string().optional().nullable()
OptionalStringOk(v) == v.t \in {"string", "undefined", "null"}

NoData ==
  [address |-> <<>>, crowd |-> <<>>, feature |-> <<>>, radius_m |-> NaN,
   local_time_iso |-> Undef]

\* Schema.safeParse(incoming): the coercion Number(radius_m) is the only
\* step that can throw; otherwise success with the parsed data, or failure
SchemaOutcome(a, c, f, r, t) ==
  IF /\ TrimmedStringOk(a, MaxAddressLen)
     /\ c.t = "string" /\ c.s \in CrowdJp \cup CrowdInternal
     /\ TrimmedStringOk(f, MaxFeatureLen)
     /\ RadiusOk(r)
     /\ OptionalStringOk(t)
  THEN [success |-> TRUE,
        data |-> [address |-> Trim(a.s),
                  crowd |-> CrowdTransform(c.s),
                  feature |-> Trim(f.s),
                  radius_m |-> r,
                  local_time_iso |-> t]]
  ELSE [success |-> FALSE, data |-> NoData]

SchemaSafeParse(incoming) ==
  IF ConversionThrows(Get(incoming, "radius_m")) THEN Threw
  ELSE Ok(SchemaOutcome(Get(incoming, "address"), Get(incoming, "crowd"),
                        Get(incoming, "feature"),
                        NumberOf(Get(incoming, "radius_m")),
                        Get(incoming, "local_time_iso")))

\* a radius that falls back to the default whenever it is out of range
LooseRadiusDefaulting(r) ==
  IF IsFiniteNum(r) /\ NumGe(r, NumInt(MinRadius)) /\ NumLe(r, NumInt(MaxRadius))
  THEN MathRound(r)
  ELSE NumInt(DefaultRadius)

\* Number.isFinite(r) ? Math.round(Math.max(10, Math.min(r, 40_075_000))) : 500
LooseRadius(r) ==
  IF IsFiniteNum(r)
  THEN MathRound(MathMax(NumInt(MinRadius), MathMin(r, NumInt(MaxRadius))))
  ELSE NumInt(DefaultRadius)

LooseCrowd(c) ==
  IF c = Str(JpCrowded) \/ c = Str(TextCrowded) THEN TextCrowded
  ELSE IF c = Str(JpNormal) \/ c = Str(TextNormal) THEN TextNormal
  ELSE TextEmpty

\* String(v ?? "").trim() || default
LooseText(v, default) ==
  LET t == Trim(StringOf(Coalesce(v, Str(<<>>))))
  IN  IF t = <<>> THEN default ELSE t

\* looseNormalize(input): throws when a conversion of address, feature,
\* radius or local time throws
looseNormalize(input) ==
  LET a == Get(input, "address")
      f == Get(input, "feature")
      r == Coalesce(Get(input, "radius_m"),
                    Coalesce(Get(input, "radius"), Num(NumInt(DefaultRadius))))
      t == Get(input, "local_time_iso")
  IN  IF ConversionThrows(a) \/ ConversionThrows(f) \/ ConversionThrows(r)
         \/ ConversionThrows(t)
      THEN Threw
      ELSE Ok([address |-> LooseText(a, TextUnknown),
               crowd |-> LooseCrowd(Get(input, "crowd")),
               feature |-> LooseText(f, TextPeople),
               radius_m |-> LooseRadius(NumberOf(r)),
               local_time_iso |->
                 IF Truthy(t) /\ StringOf(t) # <<>> THEN Str(StringOf(t)) ELSE Null])

\* ------------------------------------------------------------------------
\* Language, nationality filter, local time, place type
\* ------------------------------------------------------------------------
\* the character class of hasJapanese: U+3040..U+30FF and U+4E00..U+9FFF
IsJapaneseChar(c) == c \in 12352..12543 \/ c \in 19968..40959

ContainsJapanese(s) == \E i \in 1..Len(s) : IsJapaneseChar(s[i])

\* hasJapanese(s = ""), for an s whose conversion does not throw
hasJapanese(v) ==
  ContainsJapanese(IF v.t = "undefined" THEN <<>> ELSE StringOf(v))

TextJa == S("ja")
TextEn == S("en")

\* detectTargetLang(req, body, input): "ja" or "en", or it throws when a
\* value it converts to a string cannot be converted
detectTargetLang(headers, body, input) ==
  LET e == Or(Get(body, "lang"), Or(Get(body, "ui_lang"),
              Or(Get(body, "locale"), Str(<<>>))))
      h == Or(Get(headers, "x-ui-lang"), Or(Get(headers, "accept-language"),
              Str(<<>>)))
      explicit == ToLowerCase(StringOf(e))
      hl == ToLowerCase(StringOf(h))
      c == Get(body, "crowd")
      f == Get(body, "feature")
      a == Get(body, "address")
  IN  IF ConversionThrows(e) THEN Threw
      ELSE IF explicit = TextJa THEN Ok("ja")
      ELSE IF explicit = TextEn THEN Ok("en")
      ELSE IF ConversionThrows(h) THEN Threw
      ELSE IF StartsWith(hl, TextJa) THEN Ok("ja")
      ELSE IF StartsWith(hl, TextEn) THEN Ok("en")
      ELSE IF ConversionThrows(c) THEN Threw
      ELSE IF hasJapanese(c) THEN Ok("ja")
      ELSE IF ConversionThrows(f) THEN Threw
      ELSE IF hasJapanese(f) THEN Ok("ja")
      ELSE IF ConversionThrows(a) THEN Threw
      ELSE IF hasJapanese(a) THEN Ok("ja")
      ELSE IF ContainsJapanese(input.address) \/ ContainsJapanese(input.feature)
      THEN Ok("ja")
      ELSE Ok("en")

\* gaikokujin (foreigner), nihonjin (Japanese person)
JpForeigner == <<22806, 22269, 20154>>
JpJapanese == <<26085, 26412, 20154>>
ForeignerWords ==
  {S("nonjapanese"), S("non-japanese"), S("foreigner"), JpForeigner}
  \cup {S("non") \o <<w>> \o S("japanese") : w \in WhiteSpace}
JapaneseWords == {S("japanese"), JpJapanese}

\* the two tests in the other order
detectNationalityJapaneseFirst(feature) ==
  LET s == ToLowerCase(feature)
  IN  IF IncludesAny(s, JapaneseWords) THEN "japanese_only"
      ELSE IF IncludesAny(s, ForeignerWords) THEN "foreigner_only"
      ELSE "all"

detectNationalityFilter(feature) ==
  LET s == ToLowerCase(feature)
  IN  IF IncludesAny(s, ForeignerWords) THEN "foreigner_only"
      ELSE IF IncludesAny(s, JapaneseWords) THEN "japanese_only"
      ELSE "all"

\* new Date(text) for the local date-time form the user interface sends,
\* "YYYY-MM-DDTHH:mm:ss" (or without the seconds): the local hour and the
\* day of the week (0 = Sunday), or invalid.  The texts of the model name
\* real calendar dates.
MonthOffset == <<0, 3, 2, 5, 0, 3, 5, 1, 4, 6, 2, 4>>

\* the value of at most four decimal digits
IntOfDigits(s) == BHead(BNorm(BFromDigits(s, <<>>)))

InvalidDate == [valid |-> FALSE, hour |-> 0, weekday |-> 0]

WellFormedDate(s) ==
  /\ Len(s) \in {16, 19}
  /\ AllDigits(SubSeq(s, 1, 4)) /\ s[5] = 45
  /\ AllDigits(SubSeq(s, 6, 7)) /\ s[8] = 45
  /\ AllDigits(SubSeq(s, 9, 10)) /\ s[11] = 84
  /\ AllDigits(SubSeq(s, 12, 13)) /\ s[14] = 58
  /\ AllDigits(SubSeq(s, 15, 16))
  /\ (Len(s) = 19 => s[17] = 58 /\ AllDigits(SubSeq(s, 18, 19)))

\* the day of the week of a calendar date, y being the year of the date
\* counted from March
Weekday(y, month, day) ==
  (y + (y \div 4) - (y \div 100) + (y \div 400) + MonthOffset[month] + day) % 7

DateOf(year, month, day, hour, minute, second) ==
  IF /\ month \in 1..12 /\ day \in 1..31 /\ hour \in 0..23
     /\ minute \in 0..59 /\ second \in 0..59
  THEN [valid |-> TRUE, hour |-> hour,
        weekday |-> Weekday(IF month < 3 THEN year - 1 ELSE year, month, day)]
  ELSE InvalidDate

DateParse(s) ==
  IF WellFormedDate(s)
  THEN DateOf(IntOfDigits(SubSeq(s, 1, 4)), IntOfDigits(SubSeq(s, 6, 7)),
              IntOfDigits(SubSeq(s, 9, 10)), IntOfDigits(SubSeq(s, 12, 13)),
              IntOfDigits(SubSeq(s, 15, 16)),
              IF Len(s) = 19 THEN IntOfDigits(SubSeq(s, 18, 19)) ELSE 0)
  ELSE InvalidDate

UnknownTime ==
  [hour |-> Null, weekday |-> Null, weekend |-> Null, slot |-> "unknown"]

\* the night without the hours after midnight
SlotOfHourNoWrap(hour) ==
  IF hour >= 7 /\ hour <= 9 THEN "morning_commute"
  ELSE IF hour >= 11 /\ hour <= 13 THEN "lunch"
  ELSE IF hour >= 17 /\ hour <= 20 THEN "evening_commute"
  ELSE IF hour >= 22 THEN "night"
  ELSE IF hour >= 5 /\ hour <= 6 THEN "early_morning"
  ELSE IF hour >= 10 /\ hour <= 16 THEN "daytime"
  ELSE "other"

SlotOfHour(hour) ==
  IF hour >= 7 /\ hour <= 9 THEN "morning_commute"
  ELSE IF hour >= 11 /\ hour <= 13 THEN "lunch"
  ELSE IF hour >= 17 /\ hour <= 20 THEN "evening_commute"
  ELSE IF hour >= 22 \/ hour <= 4 THEN "night"
  ELSE IF hour >= 5 /\ hour <= 6 THEN "early_morning"
  ELSE IF hour >= 10 /\ hour <= 16 THEN "daytime"
  ELSE "other"

\* parseLocalTimeInfo, without the iso field (the toISOString text of the
\* instant, which only the prompt shows)
TimeInfoOf(d) ==
  IF ~d.valid THEN UnknownTime
  ELSE [hour |-> Num(NumInt(d.hour)),
        weekday |-> Num(NumInt(d.weekday)),
        weekend |-> Bool(d.weekday = 0 \/ d.weekday = 6),
        slot |-> SlotOfHour(d.hour)]

parseLocalTimeInfo(local_time_iso) ==
  IF ~Truthy(local_time_iso) THEN UnknownTime
  ELSE TimeInfoOf(DateParse(StringOf(local_time_iso)))

\* the keyword lists of detectPlaceType; the Japanese words are eki; kuukou;
\* shoppingu, hyakkaten, depaato, shougyou; kouen, hiroba; juutaku, danchi,
\* manshon, kodate; ofisu, bijinesu-gai; daigaku, gakkou, koukou,
\* shougakkou, chuugakkou; jinja, tera, kankou, kankouchi, kankoukyaku
StationWords ==
  {S("station"), <<39365>>, S("train"), S("metro"), S("subway"), S("terminal")}
AirportWords == {S("airport"), <<31354, 28207>>}
MallWords ==
  {S("mall"), S("shopping"), <<12471, 12519, 12483, 12500, 12531, 12464>>,
   <<30334, 36008, 24215>>, <<12487, 12497, 12540, 12488>>, <<21830, 26989>>,
   S("plaza"), S("outlet")}
ParkWords == {S("park"), <<20844, 22290>>, <<24195, 22580>>, S("square")}
ResidentialWords ==
  {S("residential"), <<20303, 23429>>, <<22243, 22320>>, S("apartment"),
   <<12510, 12531, 12471, 12519, 12531>>, <<25144, 24314>>}
OfficeWords ==
  {S("office"), <<12458, 12501, 12451, 12473>>,
   <<12499, 12472, 12493, 12473, 34903>>, S("business district")}
SchoolWords ==
  {S("school"), <<22823, 23398>>, S("campus"), <<23398, 26657>>,
   <<39640, 26657>>, <<23567, 23398, 26657>>, <<20013, 23398, 26657>>}
TouristWords ==
  {S("temple"), S("shrine"), <<31070, 31038>>, <<23546>>, <<35251, 20809>>,
   S("tourist"), <<35251, 20809, 22320>>, <<35251, 20809, 23458>>}

\* the airport before the station
detectPlaceTypeAirportFirst(address, feature) ==
  LET s == ToLowerCase(address \o <<32>> \o feature)
  IN  IF IncludesAny(s, AirportWords) THEN "airport"
      ELSE IF IncludesAny(s, StationWords) THEN "station"
      ELSE IF IncludesAny(s, MallWords) THEN "mall"
      ELSE IF IncludesAny(s, ParkWords) THEN "park"
      ELSE IF IncludesAny(s, ResidentialWords) THEN "residential"
      ELSE IF IncludesAny(s, OfficeWords) THEN "office"
      ELSE IF IncludesAny(s, SchoolWords) THEN "school"
      ELSE IF IncludesAny(s, TouristWords) THEN "tourist"
      ELSE "generic"

detectPlaceType(address, feature) ==
  LET s == ToLowerCase(address \o <<32>> \o feature)
  IN  IF IncludesAny(s, StationWords) THEN "station"
      ELSE IF IncludesAny(s, AirportWords) THEN "airport"
      ELSE IF IncludesAny(s, MallWords) THEN "mall"
      ELSE IF IncludesAny(s, ParkWords) THEN "park"
      ELSE IF IncludesAny(s, ResidentialWords) THEN "residential"
      ELSE IF IncludesAny(s, OfficeWords) THEN "office"
      ELSE IF IncludesAny(s, SchoolWords) THEN "school"
      ELSE IF IncludesAny(s, TouristWords) THEN "tourist"
      ELSE "generic"

\* ------------------------------------------------------------------------
\* Estimates: neutralEstimate, normalizeResult, serverSideSelfValidate
\* ------------------------------------------------------------------------
\* Math.PI
PI == [k |-> "fin", neg |-> FALSE, n |-> <<9793, 5358, 5926, 3141>>, e |-> 15]

NeutralBaseDensity == 1600

\* crowd === "crowded" ? 1.8 : crowd === "normal" ? 1.0 : 0.5
CrowdFactor(crowd) ==
  IF crowd = TextCrowded THEN NumDec(18, 1)
  ELSE IF crowd = TextNormal THEN NumDec(10, 1)
  ELSE NumDec(5, 1)

\* an area that shrinks as the radius grows
CircleAreaShrinking(radius_m) ==
  LET r_km == NumDivPow10(MathMax(NumInt(0), NumSub(NumInt(10^9), radius_m)), 3)
  IN  NumMul(NumMul(PI, r_km), r_km)

\* Math.PI * r_km * r_km with r_km = Math.max(0, radius_m) / 1000
CircleArea(radius_m) ==
  LET r_km == NumDivPow10(MathMax(NumInt(0), radius_m), 3)
  IN  NumMul(NumMul(PI, r_km), r_km)

TextNeutralEn == S("Neutral estimate (no API value).")
\* "Hyuurisutikku suitei wo shiyou." and "Chuuritsu suitei (API mishiyou)."
TextHeuristicJa ==
  <<12498, 12517, 12540, 12522, 12473, 12486, 12451, 12483, 12463, 25512,
    23450, 12434, 20351, 29992, 12290>>
TextNeutralJa ==
  <<20013, 31435, 25512, 23450, 65288, 65, 80, 73, 26410, 20351, 29992,
    65289, 12290>>

\* the neutral estimate around the count est
NeutralOf(est) ==
  LET spread == MathRound(NumAdd(NumMul(est, NumDec(35, 2)), NumInt(15)))
  IN  [count |-> est,
       confidence |-> NumDec(55, 2),
       range |-> [min |-> MathMax(NumInt(0), NumSub(est, spread)),
                  max |-> NumAdd(est, spread)],
       assumptions |-> <<Str(S("Heuristic estimate used."))>>,
       notes |-> <<Str(TextNeutralEn)>>]

\* est = Math.max(0, Math.round(area * base_density * factor))
neutralEstimate(input) ==
  NeutralOf(MathMax(NumInt(0),
                    MathRound(NumMul(NumMul(CircleArea(input.radius_m),
                                            NumInt(NeutralBaseDensity)),
                                     CrowdFactor(input.crowd)))))

\* the handler's localisation of a neutral estimate
Localize(neutral, targetLang) ==
  IF targetLang = "ja"
  THEN [neutral EXCEPT !.assumptions = <<Str(TextHeuristicJa)>>,
                       !.notes = <<Str(TextNeutralJa)>>]
  ELSE neutral

\* num(v, d), for a v whose conversion does not throw
NumOr(v, d) == IF IsFiniteNum(NumberOf(v)) THEN NumberOf(v) ELSE d

\* array.slice(0, n)
Slice(a, n) == SubSeq(a, 1, IF Len(a) < n THEN Len(a) ELSE n)

ArrayOrEmpty(v, n) == IF v.t = "array" THEN Slice(v.a, n) ELSE <<>>

MaxListed == 8

\* normalizeResult(data): throws when a number it reads cannot be converted
\* the returned object, given count = num(data.count, 0)
NormalizedOf(data, count) ==
  LET conf == MathMax(NumInt(0),
                      MathMin(NumInt(1),
                              NumOr(Get(data, "confidence"), NumDec(6, 1))))
      rmin == NumOr(Get(Get(data, "range"), "min"),
                    MathMax(NumInt(0), MathRound(NumMul(count, NumDec(7, 1)))))
      rmax == NumOr(Get(Get(data, "range"), "max"),
                    MathMax(rmin, MathRound(NumMul(count, NumDec(14, 1)))))
  IN  [count |-> MathMax(NumInt(0), MathRound(count)),
       confidence |-> conf,
       range |-> [min |-> MathMax(NumInt(0), MathRound(rmin)),
                  max |-> MathMax(NumInt(0), MathRound(rmax))],
       assumptions |-> ArrayOrEmpty(Get(data, "assumptions"), MaxListed),
       notes |-> ArrayOrEmpty(Get(data, "notes"), MaxListed)]

normalizeResult(data) ==
  IF \/ ConversionThrows(Get(data, "count"))
     \/ ConversionThrows(Get(data, "confidence"))
     \/ ConversionThrows(Get(Get(data, "range"), "min"))
     \/ ConversionThrows(Get(Get(data, "range"), "max"))
  THEN Threw
  ELSE Ok(NormalizedOf(data, NumOr(Get(data, "count"), NumInt(0))))

\* baselineByPlace[place] ?? 2400
BaselineByPlace(place) ==
  CASE place = "station" -> 12000
    [] place = "airport" -> 8800
    [] place = "mall" -> 6000
    [] place = "office" -> 4800
    [] place = "school" -> 3200
    [] place = "tourist" -> 4000
    [] place = "residential" -> 1600
    [] place = "park" -> 800
    [] OTHER -> 2400

\* timeFactor[slot] ?? 0.8, in tenths
TimeFactorTenths(slot) ==
  CASE slot = "morning_commute" -> 16
    [] slot = "lunch" -> 13
    [] slot = "evening_commute" -> 17
    [] slot = "daytime" -> 10
    [] slot = "early_morning" -> 5
    [] slot = "night" -> 3
    [] OTHER -> 8

BandLow == NumDec(6, 1)
BandHigh == NumDec(18, 1)

\* the baseline of serverSideSelfValidate: expected value and band
BaselineOf(area, base, tf, crowdFactor) ==
  LET expected == NumMul(NumMul(NumMul(area, base), tf), crowdFactor)
      bandMin == MathMax(NumInt(0), MathRound(NumMul(expected, BandLow)))
      bandMax == MathMax(bandMin, MathRound(NumMul(expected, BandHigh)))
  IN  [area |-> area, base |-> base, tf |-> tf, crowdFactor |-> crowdFactor,
       expected |-> expected, bandMin |-> bandMin, bandMax |-> bandMax]

Baseline(input) ==
  BaselineOf(CircleArea(input.radius_m),
             NumInt(BaselineByPlace(detectPlaceType(input.address, input.feature))),
             NumDec(TimeFactorTenths(parseLocalTimeInfo(input.local_time_iso).slot), 1),
             CrowdFactor(input.crowd))

\* a clamp that overshoots the upper end of the band
ClampCountOvershoot(count, bandMin, bandMax) ==
  IF NumLt(count, bandMin) THEN bandMin
  ELSE IF NumGt(count, bandMax) THEN NumAdd(bandMax, NumInt(1))
  ELSE count

\* a clamp that forgets the upper end of the band
ClampCountLowOnly(count, bandMin, bandMax) ==
  IF NumLt(count, bandMin) THEN bandMin ELSE count

\* the clamp of the count into the band
ClampCount(count, bandMin, bandMax) ==
  IF NumLt(count, bandMin) THEN bandMin
  ELSE IF NumGt(count, bandMax) THEN bandMax
  ELSE count

\* a range with its two ends exchanged
RangeAroundSwapped(count) ==
  [min |-> MathRound(NumMul(count, NumDec(14, 1))),
   max |-> MathMax(NumInt(0), MathRound(NumMul(count, NumDec(7, 1))))]

\* range.min and range.max around a count
RangeAround(count) ==
  LET minRange == MathMax(NumInt(0), MathRound(NumMul(count, NumDec(7, 1))))
      maxRange == MathMax(minRange, MathRound(NumMul(count, NumDec(14, 1))))
  IN  [min |-> minRange, max |-> maxRange]

\* Number(x.toFixed(6))
ToFixed6(x) == NumDivPow10(MathRound(NumMul(x, NumInt(10^6))), 6)

\* "Jiko kenshou: kitaichi=", ", datou-tai=[", the wave dash, and the two
\* outcome notes "... adjusted into the band" and "... judged plausible"
TextCheckJa == <<33258, 24049, 26908, 35388, 58, 32, 26399, 24453, 20516, 61>>
TextBandJa == <<44, 32, 22949, 24403, 24111, 61, 91>>
TextWaveDash == <<12316>>
TextAdjustedJa ==
  <<33258, 24049, 26908, 35388, 12395, 12424, 12426, 25512, 23450, 20516,
    12434, 22949, 24403, 24111, 12408, 35519, 25972, 12375, 12414, 12375,
    12383, 12290>>
TextPassedJa ==
  <<33258, 24049, 26908, 35388, 12395, 12424, 12426, 25512, 23450, 20516,
    12399, 22949, 24403, 12392, 21028, 26029, 12373, 12428, 12414, 12375,
    12383, 12290>>
TextAdjustedEn == S("Adjusted into plausible band based on self-validation.")
TextPassedEn == S("Estimate passed self-validation.")
CalcLine(b) ==
  S("calc: area_km2=") \o NumberToString(ToFixed6(b.area))
  \o S(", baseline=") \o NumberToString(b.base)
  \o S(", time_factor=") \o NumberToString(b.tf)
  \o S(", crowd_factor=") \o NumberToString(b.crowdFactor)
  \o S(", expected=") \o NumberToString(MathRound(b.expected))
  \o S(", band=[") \o NumberToString(b.bandMin) \o S("..")
  \o NumberToString(b.bandMax) \o S("]")

CheckLine(b, targetLang) ==
  (IF targetLang = "ja" THEN TextCheckJa ELSE S("Self-check: expected="))
  \o NumberToString(MathRound(b.expected))
  \o (IF targetLang = "ja" THEN TextBandJa ELSE S(", plausible=["))
  \o NumberToString(b.bandMin)
  \o (IF targetLang = "ja" THEN TextWaveDash ELSE S(".."))
  \o NumberToString(b.bandMax) \o S("]")

OutcomeLine(changed, targetLang) ==
  IF targetLang = "ja"
  THEN (IF changed THEN TextAdjustedJa ELSE TextPassedJa)
  ELSE (IF changed THEN TextAdjustedEn ELSE TextPassedEn)

MaxNotes == 10

\* whether serverSideSelfValidate changes the count, given the baseline b
ValidateChanges(out, b) ==
  NumLt(out.count, b.bandMin) \/ NumGt(out.count, b.bandMax)

\* the notes array after the push: the array of the argument itself
PushedNotes(out, b, targetLang) ==
  out.notes \o <<Str(CheckLine(b, targetLang)),
                 Str(OutcomeLine(ValidateChanges(out, b), targetLang)),
                 Str(CalcLine(b))>>

\* a validation that keeps the range of a count it does not change
ValidatedKeepingRange(out, b, targetLang) ==
  LET count == ClampCount(out.count, b.bandMin, b.bandMax)
  IN  [out EXCEPT !.count = count,
                  !.range = IF ValidateChanges(out, b) THEN RangeAround(count) ELSE @,
                  !.notes = Slice(PushedNotes(out, b, targetLang), MaxNotes)]

\* the validation of out against the baseline b
ValidatedAgainst(out, b, targetLang) ==
  LET count == ClampCount(out.count, b.bandMin, b.bandMax)
  IN  [out EXCEPT !.count = count,
                  !.range = RangeAround(count),
                  !.notes = Slice(PushedNotes(out, b, targetLang), MaxNotes)]

serverSideSelfValidate(out, input, targetLang) ==
  ValidatedAgainst(out, Baseline(input), targetLang)

\* ------------------------------------------------------------------------
\* JSON.parse: the JSON texts of the model and the values they parse to
\* ------------------------------------------------------------------------
\* a complete answer: {"count":120,"confidence":0.8,"range":{"min":90,"max":160...
JsonGood ==
  S("{\"count\":120,\"confidence\":0.8,\"range\":{\"min\":90,\"max\":160},\"assumptions\":[\"a1\"],\"notes\":[\"n1\"]}")
JsonGoodValue ==
  Obj([count |-> Num(NumDec(120, 0)), confidence |-> Num(NumDec(8, 1)),
    range |-> Obj([min |-> Num(NumDec(90, 0)), max |-> Num(NumDec(160,
    0))]), assumptions |-> Arr(<<Str(S("a1"))>>), notes |->
    Arr(<<Str(S("n1"))>>)])

\* an implausible count, confidence above 1, min above max: {"count":50000000,"confidence":1.5,"range":{"min":10,"max...
JsonHuge ==
  S("{\"count\":50000000,\"confidence\":1.5,\"range\":{\"min\":10,\"max\":5},\"assumptions\":[],\"notes\":[]}")
JsonHugeValue ==
  Obj([count |-> Num(NumDec(50000000, 0)), confidence |-> Num(NumDec(15,
    1)), range |-> Obj([min |-> Num(NumDec(10, 0)), max |-> Num(NumDec(5,
    0))]), assumptions |-> Arr(<<>>), notes |-> Arr(<<>>)])

\* a count given as text, no range, notes not an array: {"count":"7.5","notes":"none"}
JsonSparse ==
  S("{\"count\":\"7.5\",\"notes\":\"none\"}")
JsonSparseValue ==
  Obj([count |-> Str(S("7.5")), notes |-> Str(S("none"))])

\* negative numbers: {"count":-3,"confidence":-1,"range":{"min":-2}}
JsonNegative ==
  S("{\"count\":-3,\"confidence\":-1,\"range\":{\"min\":-2}}")
JsonNegativeValue ==
  Obj([count |-> Num(NumDec(0 - 3, 0)), confidence |-> Num(NumDec(0 - 1,
    0)), range |-> Obj([min |-> Num(NumDec(0 - 2, 0))])])

\* an object without fields: {}
JsonEmpty ==
  S("{}")
JsonEmptyValue ==
  Obj(NoProps)

\* nine assumptions and nine notes: {"count":9000,"confidence":0.5,"assumptions":["n1","n2","...
JsonWordy ==
  S("{\"count\":9000,\"confidence\":0.5,\"assumptions\":[\"n1\",\"n2\",\"n3\",\"n4\",\"n5\",\"n6\",\"n7\",\"n8\",\"n9\"],\"notes\":[\"n1\",\"n2\",\"n3\",\"n4\",\"n5\",\"n6\",\"n7\",\"n8\",\"n9\"]}")
JsonWordyValue ==
  Obj([count |-> Num(NumDec(9000, 0)), confidence |-> Num(NumDec(5, 1)),
    assumptions |-> Arr(<<Str(S("n1")), Str(S("n2")), Str(S("n3")),
    Str(S("n4")), Str(S("n5")), Str(S("n6")), Str(S("n7")), Str(S("n8")),
    Str(S("n9"))>>), notes |-> Arr(<<Str(S("n1")), Str(S("n2")),
    Str(S("n3")), Str(S("n4")), Str(S("n5")), Str(S("n6")), Str(S("n7")),
    Str(S("n8")), Str(S("n9"))>>)])

\* a count that cannot be converted to a number: {"count":{"toString":1}}
JsonBadCount ==
  S("{\"count\":{\"toString\":1}}")
JsonBadCountValue ==
  Obj([count |-> BadObj])

\* a number: 42
JsonNumber ==
  S("42")
JsonNumberValue ==
  Num(NumDec(42, 0))

\* null: null
JsonNullText ==
  S("null")
JsonNullTextValue ==
  Null

\* a request body sent as text: {"address":"Shibuya Station","crowd":"crowded","feature":...
JsonBodyShibuya ==
  S("{\"address\":\"Shibuya Station\",\"crowd\":\"crowded\",\"feature\":\"commuters\",\"radius_m\":500}")
JsonBodyShibuyaValue ==
  Obj([address |-> Str(S("Shibuya Station")), crowd |-> Str(S("crowded")),
    feature |-> Str(S("commuters")), radius_m |-> Num(NumDec(500, 0))])

\* a request body sent as text whose lang cannot be converted: {"address":"Ueno Park","crowd":"normal","feature":"jogger...
JsonBodyBadLang ==
  S("{\"address\":\"Ueno Park\",\"crowd\":\"normal\",\"feature\":\"joggers\",\"radius_m\":300,\"lang\":{\"toString\":1}}")
JsonBodyBadLangValue ==
  Obj([address |-> Str(S("Ueno Park")), crowd |-> Str(S("normal")), feature
    |-> Str(S("joggers")), radius_m |-> Num(NumDec(300, 0)), lang |->
    BadObj])

JsonTexts ==
  {JsonGood,
   JsonHuge,
   JsonSparse,
   JsonNegative,
   JsonEmpty,
   JsonWordy,
   JsonBadCount,
   JsonNumber,
   JsonNullText,
   JsonBodyShibuya,
   JsonBodyBadLang}

\* JSON.parse(text): every text that is not one of the above is a syntax
\* error (the other texts of the model are not JSON)
JSONParse(text) ==
  LET t == Trim(text)
  IN  CASE t = JsonGood -> Ok(JsonGoodValue)
        [] t = JsonHuge -> Ok(JsonHugeValue)
        [] t = JsonSparse -> Ok(JsonSparseValue)
        [] t = JsonNegative -> Ok(JsonNegativeValue)
        [] t = JsonEmpty -> Ok(JsonEmptyValue)
        [] t = JsonWordy -> Ok(JsonWordyValue)
        [] t = JsonBadCount -> Ok(JsonBadCountValue)
        [] t = JsonNumber -> Ok(JsonNumberValue)
        [] t = JsonNullText -> Ok(JsonNullTextValue)
        [] t = JsonBodyShibuya -> Ok(JsonBodyShibuyaValue)
        [] t = JsonBodyBadLang -> Ok(JsonBodyBadLangValue)
        [] OTHER -> Threw

\* ------------------------------------------------------------------------
\* tryParseJSON and the synchronous steps of the handler
\* ------------------------------------------------------------------------
Fence == <<96, 96, 96>>
FenceJson == Fence \o S("json")

\* content.match(/```json([\s\S]*?)```/i): the text between the first
\* opening fence and the first closing fence after it, or no match
FencedMatch(s) ==
  LET p == IndexOf(ToLowerCase(s), FenceJson)
      rest == SubSeq(s, p + Len(FenceJson), Len(s))
      q == IndexOf(rest, Fence)
  IN  IF p = 0 \/ q = 0 THEN [found |-> FALSE, inner |-> <<>>]
      ELSE [found |-> TRUE, inner |-> SubSeq(rest, 1, q - 1)]

\* tryParseJSON(content): the fenced block, then the text from the first
\* "{" to the last "}", then the whole text; null when none of them parses
\* try { return JSON.parse(...) } catch {}, followed by the rest
ParsedOr(parsed, rest) == IF parsed.threw THEN rest ELSE parsed.v

\* the step of the braces, first and last being the places of the first
\* "{" and of the last "}"
ParseBraces(s, first, last, rest) ==
  IF first # 0 /\ last # 0 /\ last > first
  THEN ParsedOr(JSONParse(SubSeq(s, first, last)), rest)
  ELSE rest

\* the step of the fenced block
ParseFenced(fenced, rest) ==
  IF fenced.found /\ fenced.inner # <<>>
  THEN ParsedOr(JSONParse(Trim(fenced.inner)), rest)
  ELSE rest

\* the braces before the fenced block
tryParseJSONBracesFirst(content) ==
  IF content.t # "string" THEN Null
  ELSE ParseBraces(content.s, IndexOf(content.s, S("{")),
                   LastIndexOf(content.s, S("}")),
                   ParseFenced(FencedMatch(content.s),
                               ParsedOr(JSONParse(content.s), Null)))

tryParseJSON(content) ==
  IF content.t # "string" THEN Null
  ELSE ParseFenced(FencedMatch(content.s),
                   ParseBraces(content.s, IndexOf(content.s, S("{")),
                               LastIndexOf(content.s, S("}")),
                               ParsedOr(JSONParse(content.s), Null)))

\* the body the handler works with: a text body is parsed, and anything
\* that is not an object becomes {}
\* if (!body || typeof body !== "object") body = {}
ObjectOrEmpty(body) ==
  IF ~Truthy(body) \/ body.t \notin {"object", "badobject", "array"}
  THEN Obj(NoProps)
  ELSE body

ParseBody(reqBody) ==
  ObjectOrEmpty(IF reqBody.t # "string" THEN reqBody
                ELSE ParsedOr(JSONParse(reqBody.s), Obj(NoProps)))

\* { ...body, radius_m: ..., local_time_iso: ... }
Incoming(body) ==
  Obj(("radius_m" :> Coalesce(Get(body, "radius_m"), Get(body, "radius"))
       @@ "local_time_iso" :>
            Coalesce(Get(body, "local_time_iso"),
                     Coalesce(Get(body, "time"), Get(body, "localTime"))))
      @@ body.f)

\* parsed.success ? parsed.data : looseNormalize(incoming)
DeriveInput(incoming) ==
  LET parsed == SchemaSafeParse(incoming)
  IN  IF parsed.threw THEN Threw
      ELSE IF parsed.v.success THEN Ok(parsed.v.data)
      ELSE looseNormalize(incoming)

\* xres?.choices?.[0]?.message?.content ?? ""
At(v, i) == IF v.t = "array" /\ i + 1 <= Len(v.a) THEN v.a[i + 1] ELSE Undef

ContentOf(xres) ==
  Coalesce(Get(Get(At(Get(xres, "choices"), 0), "message"), "content"),
           Str(<<>>))

\* the data execOnce finds in the gateway's answer: tryParseJSON(content),
\* then tryParseJSON(String(content)); it throws when String(content) throws
\* if (!data) data = tryParseJSON(String(content))
DataOr(data, content) ==
  IF Truthy(data) THEN Ok(data)
  ELSE IF ConversionThrows(content) THEN Threw
  ELSE Ok(tryParseJSON(Str(StringOf(content))))

AnswerData(xres) == DataOr(tryParseJSON(ContentOf(xres)), ContentOf(xres))

\* the estimate execOnce builds from the data, before the validator: the
\* neutral estimate when there is no data; it throws when normalizeResult
\* throws
AnswerEstimate(data, input, targetLang) ==
  IF ~Truthy(data) THEN Ok(Localize(neutralEstimate(input), targetLang))
  ELSE normalizeResult(data)

\* a path that sends its estimate without the validator
FinalizeSkipped(out, input, targetLang) == out

\* the validator call that ends each path of the handler
Finalize(out, input, targetLang) == serverSideSelfValidate(out, input, targetLang)

NoEstimate ==
  [count |-> NaN, confidence |-> NaN, range |-> [min |-> NaN, max |-> NaN],
   assumptions |-> <<>>, notes |-> <<>>]

\* the fail-safe of the outer catch: the neutral estimate from the raw
\* body, the language, and the input the validator is given; it throws
\* when a conversion of the raw body's values throws
\* the language of the fail-safe from e = b?.lang || b?.ui_lang || "" and
\* the raw feature and address:
\*   e.toString().toLowerCase().startsWith("ja") || hasJapanese(b?.feature)
\*   || hasJapanese(b?.address) ? "ja" : "en"
EmergencyLang(e, f, a) ==
  IF ConversionThrows(e) THEN Threw
  ELSE IF StartsWith(ToLowerCase(StringOf(e)), TextJa) THEN Ok("ja")
  ELSE IF ConversionThrows(f) THEN Threw
  ELSE IF hasJapanese(f) THEN Ok("ja")
  ELSE IF ConversionThrows(a) THEN Threw
  ELSE IF hasJapanese(a) THEN Ok("ja")
  ELSE Ok("en")

\* the fail-safe given r, c, the language and inputLite
EmergencyFrom(r, c, lang, inputLite) ==
  IF lang.threw \/ inputLite.threw THEN Threw
  ELSE Ok([neutral |-> Localize(neutralEstimate([radius_m |-> r, crowd |-> c]),
                                lang.v),
           targetLang |-> lang.v,
           input |-> inputLite.v])

\* Number(...) || 500
NumberOrDefault(rn) ==
  IF IsNaN(rn) \/ IsZero(rn) THEN NumInt(DefaultRadius) ELSE rn

\* the fail-safe for b = req?.body || {}
EmergencyOf(b) ==
  LET rv == Coalesce(Get(b, "radius_m"),
                     Coalesce(Get(b, "radius"), Num(NumInt(DefaultRadius))))
      r == NumberOrDefault(NumberOf(rv))
      c == LooseCrowd(Get(b, "crowd"))
  IN  IF ConversionThrows(rv) THEN Threw
      ELSE EmergencyFrom(
             r, c,
             EmergencyLang(Or(Get(b, "lang"), Or(Get(b, "ui_lang"), Str(<<>>))),
                           Get(b, "feature"), Get(b, "address")),
             looseNormalize(Obj([address |-> Get(b, "address"),
                                 crowd |-> Str(c),
                                 feature |-> Get(b, "feature"),
                                 radius_m |-> Num(r),
                                 local_time_iso |->
                                   Coalesce(Get(b, "local_time_iso"),
                                            Coalesce(Get(b, "time"),
                                                     Get(b, "localTime")))])))

Emergency(reqBody) == EmergencyOf(Or(reqBody, Obj(NoProps)))

\* ------------------------------------------------------------------------
\* The requests and the gateway answers of the model
\* ------------------------------------------------------------------------
\* Tokyo-eki (Tokyo Station)
JpTokyoStation == <<26481, 20140, 39365>>

BodyShibuya ==
  Obj([address |-> Str(S("Shibuya Station")), crowd |-> Str(TextCrowded),
       feature |-> Str(S("commuters")), radius_m |-> Num(NumInt(500))])
BodyJapanese ==
  Obj([address |-> Str(JpTokyoStation), crowd |-> Str(JpCrowded),
       feature |-> Str(S("foreigner tourists")), radius_m |-> Str(S("2000")),
       local_time_iso |-> Str(S("2024-01-06T08:30:00"))])
BodyResidential ==
  Obj([address |-> Str(S("Quiet residential block")), crowd |-> Str(TextEmpty),
       feature |-> Str(S("residents")), radius |-> Num(NumInt(200)),
       time |-> Str(S("2024-01-08T23:30"))])
BodyBadRadiusText ==
  Obj([address |-> Str(S("Central Park")), crowd |-> Str(S("busy")),
       feature |-> Str(S("  ")), radius_m |-> Str(S("abc"))])
BodyEmptyObject == Obj(NoProps)
BodyZeroRadius ==
  Obj([address |-> Str(S("Airport terminal")), crowd |-> Str(JpNormal),
       feature |-> Str(S("travellers")), radius_m |-> Num(NumInt(0))])
BodyHugeRadius ==
  Obj([address |-> Str(S("Shopping mall")), crowd |-> Str(TextCrowded),
       feature |-> Str(S("shoppers")), radius_m |-> Num(NumInt(50000000))])
BodyText == Str(JsonBodyShibuya)
BodyTextBadLang == Str(JsonBodyBadLang)
BodyGarbageText == Str(S("address=Shibuya"))
BodyMissing == Undef
\* bodies with a value that cannot be converted to a string or a number
BodyBadLang ==
  Obj([address |-> Str(S("Ueno Park")), crowd |-> Str(TextNormal),
       feature |-> Str(S("joggers")), radius_m |-> Num(NumInt(300)),
       lang |-> BadObj])
BodyBadLocale ==
  Obj([address |-> Str(S("Office tower")), crowd |-> Str(TextNormal),
       feature |-> Str(S("workers")), radius_m |-> Str(S("Infinity")),
       locale |-> BadObj])
BodyBadCrowd ==
  Obj([address |-> Str(S("High school")), crowd |-> BadObj,
       feature |-> Str(S("students")), radius_m |-> Num(NumInt(150))])
BodyBadAddress ==
  Obj([address |-> BadObj, crowd |-> Str(TextNormal),
       feature |-> Str(S("people")), radius_m |-> Num(NumInt(100))])
BodyBadRadius ==
  Obj([address |-> Str(S("Temple")), crowd |-> Str(TextNormal),
       feature |-> Str(S("tourists")), radius_m |-> BadObj])

Bodies ==
  {BodyShibuya, BodyJapanese, BodyResidential, BodyBadRadiusText,
   BodyEmptyObject, BodyZeroRadius, BodyHugeRadius, BodyText,
   BodyTextBadLang, BodyGarbageText, BodyMissing, BodyBadLang, BodyBadLocale,
   BodyBadCrowd, BodyBadAddress, BodyBadRadius}

Methods == {"OPTIONS", "GET", "PUT", "POST"}

HeaderSets ==
  {Obj(NoProps), Obj("accept-language" :> Str(S("ja-JP,ja;q=0.9")))}

Requests == [method : Methods, headers : HeaderSets, body : Bodies]

\* the texts a gateway answer carries as its content
TextFenced ==
  S("Here is the estimate:") \o <<10>> \o Fence \o S("JSON") \o <<10>>
  \o JsonHuge \o <<10>> \o Fence \o <<10>> \o S("Let me know {if} unsure.")
TextEmbedded == S("Estimate: ") \o JsonSparse \o S(" (approximate)")
TextRefusal == S("I cannot estimate this.")

Contents ==
  {Str(JsonGood), Str(TextFenced), Str(TextEmbedded), Str(TextRefusal),
   Str(JsonNegative), Str(JsonEmpty), Str(JsonWordy), Str(JsonBadCount),
   Str(JsonNumber), Str(JsonNullText), Num(NumInt(42)), Obj(NoProps), BadObj}

Completion(content) ==
  Obj([choices |-> Arr(<<Obj([message |-> Obj([content |-> content])])>>)])

\* what a fetch resolves to: ok and status, the error text of a failure,
\* the JSON of the body, and whether the body can still be read
HttpOk(json) ==
  [ok |-> TRUE, status |-> 200, text |-> <<>>, json |-> json, readable |-> TRUE]
HttpError(status, text) ==
  [ok |-> FALSE, status |-> status, text |-> text, json |-> Obj(NoProps),
   readable |-> TRUE]

HttpResponses ==
  {HttpOk(Completion(c)) : c \in Contents}
  \cup {HttpOk(Obj(NoProps)),
        HttpError(400, S("Unknown parameter: max_output_tokens")),
        HttpError(400, S("Invalid model")),
        HttpError(500, S("Internal error"))}

NoHttp == HttpError(0, <<>>)

\* ------------------------------------------------------------------------
\* The handler as a state machine
\* ------------------------------------------------------------------------
VARIABLES
  req,         \* the request: method, headers, body
  keySet,      \* whether process.env.XAI_API_KEY is set
  pc,          \* where the handler is
  input,       \* the canonical input
  targetLang,  \* "ja" or "en"
  attempt,     \* the number of execOnce calls started
  fetches,     \* the number of fetch calls started
  second,      \* whether the current gateway call has sent its second fetch
  timer,       \* "unset", "armed", "cleared" or "fired"
  http,        \* the response the current gateway call is reading
  pre,         \* the estimate handed to the final validator call
  kind,        \* which path produced the response
  res,         \* the response: status 0 while none is sent
  sent,        \* the number of responses sent
  given,       \* the arguments of a function under test
  got          \* the results of a function under test

handlerVars ==
  <<req, keySet, pc, input, targetLang, attempt, fetches, second, timer, http,
    pre, kind, res, sent>>
benchVars == <<given, got>>
vars ==
  <<req, keySet, pc, input, targetLang, attempt, fetches, second, timer, http,
    pre, kind, res, sent, given, got>>

NoResponse == [status |-> 0, body |-> NoEstimate]

HandlerIdle ==
  /\ pc = "start"
  /\ input = NoData
  /\ targetLang = "en"
  /\ attempt = 0
  /\ fetches = 0
  /\ second = FALSE
  /\ timer = "unset"
  /\ http = NoHttp
  /\ pre = NoEstimate
  /\ kind = "none"
  /\ res = NoResponse
  /\ sent = 0

Init ==
  /\ req \in Requests
  /\ keySet \in BOOLEAN
  /\ HandlerIdle
  /\ given = <<>>
  /\ got = <<>>

\* res.status(200).json(estimate)
Respond(estimate, by) ==
  /\ res' = [status |-> 200, body |-> estimate]
  /\ sent' = sent + 1
  /\ kind' = by
  /\ pc' = "done"

\* res.status(204).end()
Options ==
  /\ pc = "start"
  /\ req.method = "OPTIONS"
  /\ res' = [status |-> 204, body |-> NoEstimate]
  /\ sent' = sent + 1
  /\ pc' = "done"
  /\ UNCHANGED <<req, keySet, input, targetLang, attempt, fetches, second,
                 timer, http, pre, kind, given, got>>

\* res.status(405).json({ error: "Use POST" })
MethodNotAllowed ==
  /\ pc = "start"
  /\ req.method \notin {"OPTIONS", "POST"}
  /\ res' = [status |-> 405, body |-> NoEstimate]
  /\ sent' = sent + 1
  /\ pc' = "done"
  /\ UNCHANGED <<req, keySet, input, targetLang, attempt, fetches, second,
                 timer, http, pre, kind, given, got>>

\* the body is parsed and the canonical input derived
Normalize ==
  /\ pc = "start"
  /\ req.method = "POST"
  /\ \E d \in {DeriveInput(Incoming(ParseBody(req.body)))} :
       /\ ~d.threw
       /\ input' = d.v
  /\ pc' = "input"
  /\ UNCHANGED <<req, keySet, targetLang, attempt, fetches, second, timer,
                 http, pre, kind, res, sent, given, got>>

NormalizeThrows ==
  /\ pc = "start"
  /\ req.method = "POST"
  /\ DeriveInput(Incoming(ParseBody(req.body))).threw
  /\ pc' = "catch"
  /\ UNCHANGED <<req, keySet, input, targetLang, attempt, fetches, second,
                 timer, http, pre, kind, res, sent, given, got>>

DetectLang ==
  /\ pc = "input"
  /\ \E l \in {detectTargetLang(req.headers, ParseBody(req.body), input)} :
       /\ ~l.threw
       /\ targetLang' = l.v
  /\ pc' = "lang"
  /\ UNCHANGED <<req, keySet, input, attempt, fetches, second, timer, http,
                 pre, kind, res, sent, given, got>>

DetectLangThrows ==
  /\ pc = "input"
  /\ detectTargetLang(req.headers, ParseBody(req.body), input).threw
  /\ pc' = "catch"
  /\ UNCHANGED <<req, keySet, input, targetLang, attempt, fetches, second,
                 timer, http, pre, kind, res, sent, given, got>>

\* no API key: the neutral estimate, validated
AnswerWithoutKey ==
  /\ pc = "lang"
  /\ ~keySet
  /\ pre' = Localize(neutralEstimate(input), targetLang)
  /\ Respond(Finalize(pre', input, targetLang), "nokey")
  /\ UNCHANGED <<req, keySet, input, targetLang, attempt, fetches, second,
                 timer, http, given, got>>

\* the timer is armed and execOnce(controller.signal) sends its first fetch
FirstAttempt ==
  /\ pc = "lang"
  /\ keySet
  /\ timer' = "armed"
  /\ attempt' = 1
  /\ fetches' = fetches + 1
  /\ second' = FALSE
  /\ pc' = "fetch"
  /\ UNCHANGED <<req, keySet, input, targetLang, http, pre, kind, res, sent,
                 given, got>>

\* the fetch resolves; a fetch whose signal is aborted does not
FetchResolves ==
  /\ pc = "fetch"
  /\ ~(attempt = 1 /\ timer = "fired")
  /\ \E h \in HttpResponses : http' = h
  /\ pc' = "response"
  /\ UNCHANGED <<req, keySet, input, targetLang, attempt, fetches, second,
                 timer, pre, kind, res, sent, given, got>>

\* the fetch rejects: a network error, or the abort of its signal
FetchRejects ==
  /\ pc = "fetch"
  /\ http' = NoHttp
  /\ pc' = "failed"
  /\ UNCHANGED <<req, keySet, input, targetLang, attempt, fetches, second,
                 timer, pre, kind, res, sent, given, got>>

\* the timer fires while the first attempt awaits: the signal is aborted,
\* and a body that is being read can no longer be read
Timeout ==
  /\ timer = "armed"
  /\ pc \in {"fetch", "response"}
  /\ timer' = "fired"
  /\ http' = IF pc = "response" THEN [http EXCEPT !.readable = FALSE] ELSE http
  /\ UNCHANGED <<req, keySet, pc, input, targetLang, attempt, fetches, second,
                 pre, kind, res, sent, given, got>>

\* any status 400
RetryTextMatchesAny(h) == h.status = 400

RetryTextMatches(h) ==
  h.status = 400 /\ Includes(ToLowerCase(h.text), S("max_output_tokens"))

\* a first response that is a 400 naming max_output_tokens: a second fetch
InnerRetry ==
  /\ pc = "response"
  /\ ~http.ok /\ http.readable /\ ~second
  /\ RetryTextMatches(http)
  /\ second' = TRUE
  /\ fetches' = fetches + 1
  /\ http' = NoHttp
  /\ pc' = "fetch"
  /\ UNCHANGED <<req, keySet, input, targetLang, attempt, timer, pre, kind, res,
                 sent, given, got>>

\* a response that is not ok makes the gateway call throw
GatewayError ==
  /\ pc = "response"
  /\ ~http.ok
  /\ ~(http.readable /\ ~second /\ RetryTextMatches(http))
  /\ http' = NoHttp
  /\ pc' = "failed"
  /\ UNCHANGED <<req, keySet, input, targetLang, attempt, fetches, second,
                 timer, pre, kind, res, sent, given, got>>

\* resp.json().catch(() => ({}))
JsonOf(h) == IF h.readable THEN h.json ELSE Obj(NoProps)

\* an ok response: the estimate from its content, validated
AnswerAccepted ==
  /\ pc = "response"
  /\ http.ok
  /\ \E data \in {AnswerData(JsonOf(http))} :
       /\ ~data.threw
       /\ \E e \in {AnswerEstimate(data.v, input, targetLang)} :
            /\ ~e.threw
            /\ pre' = e.v
            /\ Respond(Finalize(e.v, input, targetLang),
                       IF Truthy(data.v) THEN "repaired" ELSE "unparsable")
  /\ timer' = IF timer = "armed" THEN "cleared" ELSE timer
  /\ UNCHANGED <<req, keySet, input, targetLang, attempt, fetches, second, http,
                 given, got>>

\* an ok response whose content makes execOnce throw
AnswerThrows ==
  /\ pc = "response"
  /\ http.ok
  /\ \E data \in {AnswerData(JsonOf(http))} :
       data.threw \/ AnswerEstimate(data.v, input, targetLang).threw
  /\ http' = NoHttp
  /\ pc' = "failed"
  /\ UNCHANGED <<req, keySet, input, targetLang, attempt, fetches, second,
                 timer, pre, kind, res, sent, given, got>>

\* a retry after every failed attempt, the second included
RetryAgain ==
  /\ pc = "failed"
  /\ attempt \in {1, 2}
  /\ timer' = IF timer = "armed" THEN "cleared" ELSE timer
  /\ attempt' = attempt + 1
  /\ fetches' = fetches + 1
  /\ second' = FALSE
  /\ pc' = "fetch"
  /\ UNCHANGED <<req, keySet, input, targetLang, http, pre, kind, res, sent,
                 given, got>>

\* the first attempt threw: the timer is cleared and execOnce(undefined)
\* sends its first fetch
Retry ==
  /\ pc = "failed"
  /\ attempt = 1
  /\ timer' = IF timer = "armed" THEN "cleared" ELSE timer
  /\ attempt' = 2
  /\ fetches' = fetches + 1
  /\ second' = FALSE
  /\ pc' = "fetch"
  /\ UNCHANGED <<req, keySet, input, targetLang, http, pre, kind, res, sent,
                 given, got>>

\* the second attempt threw: the neutral estimate, validated
Fallback ==
  /\ pc = "failed"
  /\ attempt = 2
  /\ pre' = Localize(neutralEstimate(input), targetLang)
  /\ Respond(Finalize(pre', input, targetLang), "fallback")
  /\ UNCHANGED <<req, keySet, input, targetLang, attempt, fetches, second,
                 timer, http, given, got>>

\* the outer catch: the fail-safe estimate, validated
FailSafe ==
  /\ pc = "catch"
  /\ \E e \in {Emergency(req.body)} :
       /\ ~e.threw
       /\ input' = e.v.input
       /\ targetLang' = e.v.targetLang
       /\ pre' = e.v.neutral
       /\ Respond(Finalize(e.v.neutral, e.v.input, e.v.targetLang), "catch")
  /\ UNCHANGED <<req, keySet, attempt, fetches, second, timer, http, given, got>>

\* the outer catch throws itself: the handler ends without a response
FailSafeThrows ==
  /\ pc = "catch"
  /\ Emergency(req.body).threw
  /\ pc' = "crashed"
  /\ UNCHANGED <<req, keySet, input, targetLang, attempt, fetches, second,
                 timer, http, pre, kind, res, sent, given, got>>

Next ==
  \/ Options
  \/ MethodNotAllowed
  \/ Normalize
  \/ NormalizeThrows
  \/ DetectLang
  \/ DetectLangThrows
  \/ AnswerWithoutKey
  \/ FirstAttempt
  \/ FetchResolves
  \/ FetchRejects
  \/ Timeout
  \/ InnerRetry
  \/ GatewayError
  \/ AnswerAccepted
  \/ AnswerThrows
  \/ Retry
  \/ Fallback
  \/ FailSafe
  \/ FailSafeThrows

Spec == Init /\ [][Next]_vars

\* ------------------------------------------------------------------------
\* Properties of the handler
\* ------------------------------------------------------------------------
Finished == pc \in {"done", "crashed"}

\* C1: the count of every status-200 estimate lies in the plausible band
\* [round(0.6 * expected), round(1.8 * expected)], expected being the
\* validator's baseline for the input it was given, whatever count the
\* estimate handed to the validator carried
CountInBand ==
  res.status = 200 =>
    LET expected == Baseline(input).expected
    IN  /\ NumLe(MathRound(NumMul(expected, NumDec(6, 1))), res.body.count)
        /\ NumLe(res.body.count, MathRound(NumMul(expected, NumDec(18, 1))))

\* a gateway count above the band was answered with the band's upper end
CountClampedFromAbove ==
  /\ res.status = 200
  /\ kind = "repaired"
  /\ NumGt(pre.count, Baseline(input).bandMax)
  /\ res.body.count = MathRound(NumMul(Baseline(input).expected, NumDec(18, 1)))

\* C2: every status-200 estimate has 0 <= range.min <= count <= range.max
RangeBracketsCount ==
  res.status = 200 =>
    /\ NumLe(NumInt(0), res.body.range.min)
    /\ NumLe(res.body.range.min, res.body.count)
    /\ NumLe(res.body.count, res.body.range.max)

\* the estimate handed to the validator had its range upside down and a
\* count outside of it
InvertedRangeRepaired ==
  /\ res.status = 200
  /\ NumGt(pre.range.min, pre.range.max)
  /\ NumGt(pre.count, pre.range.min)
  /\ NumLt(res.body.range.min, res.body.count)
  /\ NumLt(res.body.count, res.body.range.max)

\* C4: every estimate sent with status 200 is what serverSideSelfValidate
\* returned for the path's estimate, on each of the paths: no key, answer
\* repaired, answer unparsable, retry, both attempts failed, outer catch
ValidatedLast ==
  res.status = 200 =>
    /\ kind \in {"nokey", "repaired", "unparsable", "fallback", "catch"}
    /\ res.body = serverSideSelfValidate(pre, input, targetLang)

\* the outer catch answered, with an estimate the validator had to adjust
CatchAnswerValidated ==
  /\ res.status = 200
  /\ kind = "catch"
  /\ res.body.count # pre.count

\* C5: once the handler has ended, the status is determined by the method
\* alone: OPTIONS gives 204, any other method but POST gives 405, and
\* every POST gives 200
StatusByMethod ==
  Finished =>
    /\ req.method = "OPTIONS" => res.status = 204
    /\ req.method \notin {"OPTIONS", "POST"} => res.status = 405
    /\ req.method = "POST" => res.status = 200

\* C6: without an API key every POST the handler has ended is answered
\* with status 200 and a validated neutral estimate, and no fetch was
\* started for it
NoKeyNeutralAnswer ==
  (Finished /\ req.method = "POST" /\ ~keySet) =>
    /\ res.status = 200
    /\ fetches = 0
    /\ pre.notes \in {<<Str(TextNeutralEn)>>, <<Str(TextNeutralJa)>>}
    /\ res.body = serverSideSelfValidate(pre, input, targetLang)

\* ------------------------------------------------------------------------
\* The functions on their own: the arguments are drawn, the function is
\* applied, and its results are kept
\* ------------------------------------------------------------------------
IdleRequest == [method |-> "POST", headers |-> Obj(NoProps), body |-> Undef]

BenchInit ==
  /\ req = IdleRequest
  /\ keySet = FALSE
  /\ HandlerIdle
  /\ got = <<>>

\* --- the normalisation of a request body -------------------------------
MaxRadiusExp == 8
OverLength == 1

Powers == {10^k : k \in 0..MaxRadiusExp}

RawAddresses ==
  {Undef, Null, Str(<<>>), Str(S("   ")), Str(S(" Shibuya Station ")),
   Str(JpTokyoStation), Str(Repeat(122, MaxAddressLen)),
   Str(Repeat(122, MaxAddressLen + OverLength)), Num(NumInt(0)), BadObj}
RawCrowds ==
  {Undef, Str(S("busy")), Str(S("Crowded")), Num(NumInt(1))}
  \cup {Str(c) : c \in CrowdJp \cup CrowdInternal}
RawFeatures ==
  {Undef, Str(S("  ")), Str(S("commuters")), Str(Repeat(120, MaxFeatureLen)),
   Str(Repeat(120, MaxFeatureLen + OverLength))}
RawRadii ==
  {Undef, Null, Str(<<>>), Str(S("abc")), Str(S("2000")), Str(S("Infinity")),
   Bool(TRUE), Num(NumInt(0)), Num(NumInt(0 - 5)), Num(NumInt(MinRadius - 1)),
   Num(NumInt(MinRadius)), Num(NumDec(104, 1)), Num(NumInt(DefaultRadius)),
   Num(NumInt(MaxRadius)), Num(NumInt(MaxRadius + 1)), BadObj}
  \cup {Num(NumInt(p)) : p \in Powers}

\* an object with the properties that are given
Props(f) == [k \in {j \in DOMAIN f : f[j] # Undef} |-> f[k]]

RawBody(a, c, f, r) ==
  Obj(Props([address |-> a, crowd |-> c, feature |-> f, radius_m |-> r]))

\* each field varied against a well-formed rest, and the crowd against
\* the radius
RawBodies ==
  {RawBody(a, Str(TextNormal), Str(S("people")), r) :
     a \in RawAddresses, r \in {Num(NumInt(DefaultRadius)), Num(NumInt(0))}}
  \cup {RawBody(Str(S("Ueno Park")), c, f, Num(NumInt(DefaultRadius))) :
          c \in RawCrowds, f \in RawFeatures}
  \cup {RawBody(Str(S("Ueno Park")), c, Str(S("people")), r) :
          c \in RawCrowds, r \in RawRadii}
  \cup {Obj([address |-> Str(S("Ueno Park")), crowd |-> Str(JpCrowded),
             radius |-> Num(NumInt(750)), localTime |-> Str(S("2024-01-08T12:15"))]),
        Obj(NoProps)}

\* the other vocabulary's word for a crowd label
CrowdTwin(c) ==
  CASE c = Str(JpEmpty) -> Str(TextEmpty)
    [] c = Str(JpNormal) -> Str(TextNormal)
    [] c = Str(JpCrowded) -> Str(TextCrowded)
    [] c = Str(TextEmpty) -> Str(JpEmpty)
    [] c = Str(TextNormal) -> Str(JpNormal)
    [] c = Str(TextCrowded) -> Str(JpCrowded)
    [] OTHER -> c

TwinBody(body) ==
  IF "crowd" \in DOMAIN body.f
  THEN Obj([body.f EXCEPT !["crowd"] = CrowdTwin(@)])
  ELSE body

\* what the handler derives from a body: whether it threw, the canonical
\* input, and whether the Schema accepted the body
Derived(body) ==
  LET incoming == Incoming(ParseBody(body))
      parsed == SchemaSafeParse(incoming)
      d == DeriveInput(incoming)
  IN  [threw |-> d.threw,
       input |-> IF d.threw THEN NoData ELSE d.v,
       schema |-> ~parsed.threw /\ parsed.v.success]

InitNormalize ==
  /\ BenchInit
  /\ given \in [body : RawBodies]

NormalizeGiven ==
  /\ Len(got) = 0
  /\ got' = <<Derived(given.body)>>
  /\ UNCHANGED <<handlerVars, given>>

NormalizeTwin ==
  /\ Len(got) = 1
  /\ got' = Append(got, Derived(TwinBody(given.body)))
  /\ UNCHANGED <<handlerVars, given>>

NextNormalize == NormalizeGiven \/ NormalizeTwin

SpecNormalize == InitNormalize /\ [][NextNormalize]_vars

\* --- the validator applied twice ----------------------------------------
MaxCountExp == 8

CanonicalInputs == {Derived(b).input : b \in {x \in Bodies : ~Derived(x).threw}}

AnswerValues ==
  {JsonGoodValue, JsonHugeValue, JsonSparseValue, JsonNegativeValue,
   JsonEmptyValue, JsonWordyValue, JsonNumberValue}
  \cup {Obj([count |-> Num(NumInt(10^k))]) : k \in 0..MaxCountExp}

\* the estimates the handler hands to the validator for an input: the
\* neutral estimate, the fail-safe's neutral estimate of an unbounded raw
\* radius, and the normalised answers of the gateway
Estimates(i, lang) ==
  {Localize(neutralEstimate(i), lang),
   Localize(neutralEstimate([radius_m |-> PosInfinity, crowd |-> i.crowd]), lang)}
  \cup {normalizeResult(v).v : v \in AnswerValues}

Validated(out) ==
  [result |-> serverSideSelfValidate(out, given.input, given.targetLang),
   pushed |-> PushedNotes(out, Baseline(given.input), given.targetLang)]

InitValidate ==
  /\ BenchInit
  /\ given \in UNION {[out : Estimates(i, lang), input : {i}, targetLang : {lang}] :
                        i \in CanonicalInputs, lang \in {"ja", "en"}}

Validate ==
  /\ Len(got) = 0
  /\ got' = <<Validated(given.out)>>
  /\ UNCHANGED <<handlerVars, given>>

Revalidate ==
  /\ Len(got) = 1
  /\ got' = Append(got, Validated(got[1].result))
  /\ UNCHANGED <<handlerVars, given>>

NextValidate == Validate \/ Revalidate

SpecValidate == InitValidate /\ [][NextValidate]_vars

\* --- the baseline and the neutral estimate at two radii -----------------
Radii ==
  {0, MinRadius, MinRadius + 1, DefaultRadius - 1, DefaultRadius, MaxRadius}
  \cup Powers

AtRadius(i, r) == [i EXCEPT !.radius_m = NumInt(r)]

Estimated(i) == [baseline |-> Baseline(i), neutral |-> neutralEstimate(i)]

InitRadius ==
  /\ BenchInit
  /\ given \in {[input |-> AtRadius(i, p[1]), larger |-> p[2]] :
                  i \in CanonicalInputs,
                  p \in {q \in Radii \X Radii : q[1] <= q[2]}}

EstimateAtRadius ==
  /\ Len(got) = 0
  /\ got' = <<Estimated(given.input)>>
  /\ UNCHANGED <<handlerVars, given>>

EstimateAtLarger ==
  /\ Len(got) = 1
  /\ got' = Append(got, Estimated(AtRadius(given.input, given.larger)))
  /\ UNCHANGED <<handlerVars, given>>

NextRadius == EstimateAtRadius \/ EstimateAtLarger

SpecRadius == InitRadius /\ [][NextRadius]_vars

CanonicalInvariants ==
  \A k \in 1..Len(got) :
    /\ ~got[k].threw
    /\ Len(got[k].input.address) \in 1..MaxAddressLen
    /\ Len(got[k].input.feature) \in 1..MaxFeatureLen
    /\ got[k].input.crowd \in CrowdInternal
    /\ IsInteger(got[k].input.radius_m)
    /\ NumGe(got[k].input.radius_m, NumInt(MinRadius))
    /\ NumLe(got[k].input.radius_m, NumInt(MaxRadius))

\* the raw values looseNormalize reads from the body
RawOf(body, key) == Get(Incoming(ParseBody(body)), key)

Blank(v) ==
  v.t \in {"undefined", "null"} \/ (v.t = "string" /\ Trim(v.s) = <<>>)

Missing(v) == v.t \in {"undefined", "null"}

InVocabulary(c) == c.t = "string" /\ c.s \in CrowdJp \cup CrowdInternal

LooseResult == Len(got) >= 1 /\ ~got[1].schema /\ ~got[1].threw

TextDefaults ==
  /\ Blank(RawOf(given.body, "address")) => got[1].input.address = TextUnknown
  /\ Blank(RawOf(given.body, "feature")) => got[1].input.feature = TextPeople
  /\ ~InVocabulary(RawOf(given.body, "crowd")) => got[1].input.crowd = TextEmpty

\* C8, as stated: on the loose path a missing or blank address becomes
\* "unknown", a missing or blank feature "people", a crowd outside both
\* vocabularies "empty", and a radius that is missing, not numeric, the
\* empty string, zero, below 10 or above the maximum becomes 500
LooseDefaultsAsStated ==
  LooseResult =>
    LET r == RawOf(given.body, "radius_m")
        n == NumberOf(r)
    IN  /\ TextDefaults
        /\ (\/ Missing(r) \/ ~IsFiniteNum(n) \/ r = Str(<<>>) \/ IsZero(n)
            \/ NumLt(n, NumInt(MinRadius)) \/ NumGt(n, NumInt(MaxRadius)))
           => got[1].input.radius_m = NumInt(DefaultRadius)

\* C8, amended: the text defaults as stated; a radius that is missing or
\* does not convert to a finite number becomes 500, and every other radius
\* is clamped into [10, 40075000] and rounded, so that the empty string,
\* zero and a radius below 10 become 10 and a radius above the maximum
\* becomes 40075000
LooseDefaults ==
  LooseResult =>
    LET r == RawOf(given.body, "radius_m")
        n == NumberOf(r)
        radius_m == got[1].input.radius_m
    IN  /\ TextDefaults
        /\ (Missing(r) \/ ~IsFiniteNum(n)) => radius_m = NumInt(DefaultRadius)
        /\ (~Missing(r) /\ IsFiniteNum(n) /\ NumLt(n, NumInt(MinRadius)))
           => radius_m = NumInt(MinRadius)
        /\ (~Missing(r) /\ IsFiniteNum(n) /\ NumGt(n, NumInt(MaxRadius)))
           => radius_m = NumInt(MaxRadius)
        /\ (~Missing(r) /\ IsFiniteNum(n) /\ NumGe(n, NumInt(MinRadius))
            /\ NumLe(n, NumInt(MaxRadius)))
           => radius_m = MathRound(n)

\* a radius of zero went through looseNormalize and came out as 10
ZeroRadiusClamped ==
  /\ LooseResult
  /\ RawOf(given.body, "radius_m") = Num(NumInt(0))
  /\ got[1].input.radius_m = NumInt(MinRadius)

\* the internal code a crowd label stands for
CrowdCode(c) ==
  CASE c \in {Str(JpEmpty), Str(TextEmpty)} -> TextEmpty
    [] c \in {Str(JpNormal), Str(TextNormal)} -> TextNormal
    [] c \in {Str(JpCrowded), Str(TextCrowded)} -> TextCrowded

\* C9: a body with a Japanese crowd label and the same body with the
\* corresponding internal code (and the other way round) take the same
\* path, Schema or looseNormalize, give the same canonical input with the
\* crowd code both stand for, and so the same expected value and band
BilingualCrowd ==
  (/\ Len(got) = 2
   /\ InVocabulary(RawOf(given.body, "crowd"))
   /\ ~got[1].threw) =>
    /\ ~got[2].threw
    /\ got[2].schema = got[1].schema
    /\ got[1].input.crowd = CrowdCode(RawOf(given.body, "crowd"))
    /\ got[2].input.crowd = got[1].input.crowd
    /\ got[2].input = got[1].input
    /\ Baseline(got[2].input).expected = Baseline(got[1].input).expected
    /\ Baseline(got[2].input).bandMin = Baseline(got[1].input).bandMin
    /\ Baseline(got[2].input).bandMax = Baseline(got[1].input).bandMax

\* the Japanese label for "crowded" was accepted by the Schema, and its
\* twin with the internal code was normalised as well
JapaneseLabelOnSchemaPath ==
  /\ Len(got) = 2
  /\ RawOf(given.body, "crowd") = Str(JpCrowded)
  /\ got[1].schema
  /\ got[1].input.crowd = TextCrowded

\* C10: with address, feature, crowd and local time fixed, a larger radius
\* gives an expected value, a band minimum, a band maximum and a neutral
\* count that are at least as large
RadiusMonotone ==
  Len(got) = 2 =>
    /\ NumLe(got[1].baseline.expected, got[2].baseline.expected)
    /\ NumLe(got[1].baseline.bandMin, got[2].baseline.bandMin)
    /\ NumLe(got[1].baseline.bandMax, got[2].baseline.bandMax)
    /\ NumLe(got[1].neutral.count, got[2].neutral.count)

\* the estimates at a strictly larger radius are strictly larger
LargerRadiusLargerEstimates ==
  /\ Len(got) = 2
  /\ NumLt(given.input.radius_m, NumInt(given.larger))
  /\ NumLt(got[1].baseline.bandMin, got[2].baseline.bandMin)
  /\ NumLt(got[1].neutral.count, got[2].neutral.count)


\* --- the baseline under a nationality restriction ------------------------
\* features that name a nationality, and one that names none
Features ==
  {S("foreigners"), S("Non-Japanese tourists"), JpForeigner,
   S("Japanese people"), JpJapanese, S("commuters")}

AtFeature(i, f) == [i EXCEPT !.feature = f]

\* what the handler derives for an input: the nationality filter, the
\* place type and the validator's baseline
Restricted(i) ==
  [filter |-> detectNationalityFilter(i.feature),
   place |-> detectPlaceType(i.address, i.feature),
   baseline |-> Baseline(i)]

InitNationality ==
  /\ BenchInit
  /\ given \in [input : CanonicalInputs, feature : Features]

EstimateUnrestricted ==
  /\ Len(got) = 0
  /\ got' = <<Restricted(AtFeature(given.input, TextPeople))>>
  /\ UNCHANGED <<handlerVars, given>>

EstimateRestricted ==
  /\ Len(got) = 1
  /\ got' = Append(got, Restricted(AtFeature(given.input, given.feature)))
  /\ UNCHANGED <<handlerVars, given>>

NextNationality == EstimateUnrestricted \/ EstimateRestricted

SpecNationality == InitNationality /\ [][NextNationality]_vars

\* C11: for the same place, time, crowd and radius, the expected value and
\* the band of a feature restricted to foreigners are smaller than those of
\* an unrestricted feature (nationality factor 0.15 against 1.0)
ForeignerOnlySmaller ==
  (/\ Len(got) = 2
   /\ got[1].filter = "all"
   /\ got[2].filter = "foreigner_only"
   /\ got[2].place = got[1].place) =>
    /\ NumLt(got[2].baseline.expected, got[1].baseline.expected)
    /\ NumLt(got[2].baseline.bandMax, got[1].baseline.bandMax)

\* --- the numbers of the prompt and of the validator ---------------------
\* the tables buildPrompt writes into the prompt: CALIBRATED BASELINES,
\* TIME FACTORS, CROWD FACTORS and the plausibility band of step 6
PromptTables ==
  [baseline |-> [station |-> NumInt(12000), airport |-> NumInt(8800),
                 mall |-> NumInt(6000), office |-> NumInt(4800),
                 school |-> NumInt(3200), tourist |-> NumInt(4000),
                 residential |-> NumInt(1600), park |-> NumInt(800),
                 generic |-> NumInt(2400)],
   time |-> [morning_commute |-> NumDec(16, 1), lunch |-> NumDec(13, 1),
             evening_commute |-> NumDec(17, 1), daytime |-> NumDec(10, 1),
             early_morning |-> NumDec(5, 1), night |-> NumDec(3, 1),
             other |-> NumDec(8, 1)],
   crowd |-> [empty |-> NumDec(4, 1), normal |-> NumDec(10, 1),
              crowded |-> NumInt(2)],
   band |-> [low |-> NumDec(6, 1), high |-> NumDec(18, 1)]]

\* the place types of detectPlaceType and the slots of parseLocalTimeInfo
PlaceTypes ==
  {"station", "airport", "mall", "park", "residential", "office", "school",
   "tourist", "generic"}
TimeSlots ==
  {"morning_commute", "lunch", "evening_commute", "night", "early_morning",
   "daytime", "other", "unknown"}

\* the row of a table for a key, if the table has one
Written(table, key) == IF key \in DOMAIN table THEN <<table[key]>> ELSE <<>>

CrowdKey(crowd) ==
  CASE crowd = TextEmpty -> "empty"
    [] crowd = TextNormal -> "normal"
    [] crowd = TextCrowded -> "crowded"

\* the numbers the prompt states for a context
PromptNumbers(place, slot, crowd) ==
  [base |-> Written(PromptTables.baseline, place),
   tf |-> Written(PromptTables.time, slot),
   cf |-> Written(PromptTables.crowd, CrowdKey(crowd)),
   low |-> PromptTables.band.low,
   high |-> PromptTables.band.high]

\* the numbers serverSideSelfValidate applies for the same context
ValidatorNumbers(place, slot, crowd) ==
  [base |-> <<NumInt(BaselineByPlace(place))>>,
   tf |-> <<NumDec(TimeFactorTenths(slot), 1)>>,
   cf |-> <<CrowdFactor(crowd)>>,
   low |-> BandLow,
   high |-> BandHigh]

InitPrompt ==
  /\ BenchInit
  /\ given \in [place : PlaceTypes, slot : TimeSlots, crowd : CrowdInternal]

ReadPrompt ==
  /\ Len(got) = 0
  /\ got' = <<PromptNumbers(given.place, given.slot, given.crowd)>>
  /\ UNCHANGED <<handlerVars, given>>

ReadValidator ==
  /\ Len(got) = 1
  /\ got' = Append(got, ValidatorNumbers(given.place, given.slot, given.crowd))
  /\ UNCHANGED <<handlerVars, given>>

NextPrompt == ReadPrompt \/ ReadValidator

SpecPrompt == InitPrompt /\ [][NextPrompt]_vars

\* C12: for every place type, time slot and crowd value the density, the
\* time factor, the crowd factor and the band multipliers written into the
\* prompt equal the ones the validator applies
PromptAgreesWithValidator == Len(got) = 2 => got[1] = got[2]


\* ------------------------------------------------------------------------
\* Properties of the fallback paths and of the gateway calls
\* ------------------------------------------------------------------------
\* whether a note is among the notes of an estimate
HasNote(estimate, text) ==
  \E k \in 1..Len(estimate.notes) : estimate.notes[k] = Str(text)

\* C13: on every heuristic-fallback path (no key, both gateway attempts
\* failed, answer text unparsable) the fallback estimate's count equals
\* round(expected) of the validator's baseline for the input, so that the
\* validator leaves the count alone and notes the estimate as passing
FallbackCountIsExpected ==
  (res.status = 200 /\ kind \in {"nokey", "fallback", "unparsable"}) =>
    /\ pre.count = MathRound(Baseline(input).expected)
    /\ res.body.count = pre.count
    /\ HasNote(res.body, OutcomeLine(FALSE, targetLang))

Newest(a, n) == SubSeq(a, IF Len(a) > n THEN Len(a) - n + 1 ELSE 1, Len(a))

\* C14: the notes the validator returns are at most 10, and when the
\* incoming notes and the three appended notes exceed 10 the oldest are
\* dropped: the notes returned are the 10 most recently appended
NewestNotesKept ==
  \A k \in 1..Len(got) :
    /\ Len(got[k].result.notes) <= MaxNotes
    /\ got[k].result.notes = Newest(got[k].pushed, MaxNotes)

\* C15: for 0 to 8 incoming notes, the notes the validator returns hold the
\* "adjusted" note exactly when the count was changed, the "passed" note
\* exactly when it was not, in the target language, and the "calc:" line
\* with the expected value and the band
TraceInNotes ==
  (Len(got) >= 1 /\ Len(given.out.notes) <= MaxListed) =>
    /\ HasNote(got[1].result, OutcomeLine(TRUE, given.targetLang))
         <=> got[1].result.count # given.out.count
    /\ HasNote(got[1].result, OutcomeLine(FALSE, given.targetLang))
         <=> got[1].result.count = given.out.count
    /\ HasNote(got[1].result, CalcLine(Baseline(given.input)))

\* ------------------------------------------------------------------------
\* The handler when the gateway may leave a call unanswered
\* ------------------------------------------------------------------------
\* the places where the next step is the handler's own: one of its steps
\* is enabled at each of them, and every step leaves the place
HandlerRuns == pc \in {"start", "input", "lang", "response", "failed", "catch"}

\* a fetch whose signal was aborted rejects
AbortRejects == FetchRejects /\ attempt = 1 /\ timer = "fired"

\* the handler does not stop at a step of its own, an armed timer fires and
\* an aborted fetch rejects; nothing makes the gateway answer or fail
SpecHanging ==
  /\ Init
  /\ [][Next]_vars
  /\ []<>(~HandlerRuns)
  /\ WF_vars(Timeout)
  /\ WF_vars(AbortRejects)

\* C17: even if the gateway never answers, a request whose gateway call is
\* in flight is eventually answered with status 200
HangingCallAnswered == (pc = "fetch") ~> (res.status = 200)

\* --- the repair of a parsed answer ---------------------------------------
RawCounts ==
  {Undef, Null, Num(NumInt(0)), Num(NumDec(75, 1)), Num(NumDec(7, 1)),
   Num(NumInt(0 - 10)), Num(NumDec(0 - 2, 1)), Num(PosInfinity),
   Str(S("7.5")), Str(S("abc")), Bool(TRUE), BadObj}
  \cup {Num(NumInt(10^k)) : k \in 0..MaxCountExp}
RawConfidences ==
  {Undef, Null, Num(NumDec(5, 1)), Num(NumDec(15, 1)), Num(NumInt(0 - 1)),
   Str(S("high")), BadObj}
RawRanges ==
  {Undef, Str(S("wide")),
   Obj([min |-> Num(NumInt(10)), max |-> Num(NumInt(5))]),
   Obj([min |-> Num(NumInt(100))]),
   Obj([max |-> Num(NumInt(3))]),
   Obj([min |-> Num(NumInt(0 - 5)), max |-> Num(NumInt(0 - 2))]),
   Obj([min |-> Num(NumDec(24, 1)), max |-> Num(NumDec(75, 1))]),
   Obj([min |-> BadObj, max |-> Num(NumInt(1))])}
RawLists ==
  {Undef, Str(S("none")), Arr(<<>>), Get(JsonWordyValue, "notes")}

ParsedAnswer(c, f, r, l) ==
  Obj(Props([count |-> c, confidence |-> f, range |-> r, assumptions |-> l,
             notes |-> l]))

\* the values tryParseJSON hands to normalizeResult: each field varied
\* against the others, and values that are not objects
ParsedValues ==
  {ParsedAnswer(c, Num(NumDec(8, 1)), r, Arr(<<>>)) :
     c \in RawCounts, r \in RawRanges}
  \cup {ParsedAnswer(Num(NumInt(120)), f, Undef, l) :
          f \in RawConfidences, l \in RawLists}
  \cup {JsonNumberValue, Str(S("about 40")), Bool(TRUE),
        Arr(<<Num(NumInt(3))>>)}

InitRepair ==
  /\ BenchInit
  /\ given \in [data : ParsedValues]

Repair ==
  /\ Len(got) = 0
  /\ got' = <<normalizeResult(given.data)>>
  /\ UNCHANGED <<handlerVars, given>>

NextRepair == Repair

SpecRepair == InitRepair /\ [][NextRepair]_vars

\* whether a number is an integer that is not negative
IsCount(x) == IsInteger(x) /\ NumGe(x, NumInt(0))

\* the shape of a repaired answer r for the data d, c being the count the
\* function read
RepairedAs(d, r, c) ==
  /\ IsCount(r.count)
  /\ (Get(d, "count") = Undef \/ ~IsFiniteNum(NumberOf(Get(d, "count"))))
       => IsZero(r.count)
  /\ NumGe(r.confidence, NumInt(0)) /\ NumLe(r.confidence, NumInt(1))
  /\ Get(d, "confidence") = Undef => r.confidence = NumDec(6, 1)
  /\ IsCount(r.range.min) /\ IsCount(r.range.max)
  /\ Get(d, "range") = Undef =>
       /\ r.range.min = MathMax(NumInt(0), MathRound(NumMul(c, NumDec(7, 1))))
       /\ r.range.max = MathMax(NumInt(0), MathRound(NumMul(c, NumDec(14, 1))))
  /\ Len(r.assumptions) <= MaxListed /\ Len(r.notes) <= MaxListed
  /\ Get(d, "assumptions").t # "array" => r.assumptions = <<>>
  /\ Get(d, "notes").t # "array" => r.notes = <<>>

\* C18: for every parsed value normalizeResult returns a record with an
\* integer count >= 0 (0 when the count is missing or not finite), a
\* confidence within [0, 1] (0.6 when missing), integers range.min >= 0
\* and range.max >= 0 (round(0.7 x count) and round(1.4 x count) when the
\* range is absent), and at most 8 assumptions and 8 notes (none when the
\* value is not an array)
RepairedShape ==
  Len(got) = 1 =>
    /\ ~got[1].threw
    /\ RepairedAs(given.data, got[1].v,
                  NumOr(Get(given.data, "count"), NumInt(0)))

\* ------------------------------------------------------------------------
\* The three handlers of api/estimate.js: the count and the range of the
\* estimate each of them sends with status 200 for a gateway answer
\* ------------------------------------------------------------------------
\* numOrNull(v), for a v whose conversion does not throw
numOrNull(v) ==
  IF v.t \in {"undefined", "null"} THEN Null
  ELSE IF ~IsFiniteNum(NumberOf(v)) \/ NumLt(NumberOf(v), NumInt(0)) THEN Null
  ELSE Num(NumberOf(v))

\* the words of heuristicEstimate: eki; ofisu; juutaku, juu; kankou; kouen;
\* suite (twice); konzatsu, konde; geinou
JpOfficeWord == <<12458, 12501, 12451, 12473>>
JpLightWords == {<<31354, 12356, 12390>>, <<12377, 12356, 12390>>}
JpBusyWords == {<<28151, 38609>>, <<28151, 12435, 12391>>}

HeuristicDensity(lowerPlace) ==
  IF IncludesAny(lowerPlace, {<<39365>>, S("station")}) THEN 20000
  ELSE IF IncludesAny(lowerPlace, {JpOfficeWord, S("office")}) THEN 15000
  ELSE IF IncludesAny(lowerPlace, {<<20303, 23429>>, S("residential"), <<20303>>})
       THEN 8000
  ELSE IF IncludesAny(lowerPlace, {<<35251, 20809>>, S("tourist")}) THEN 12000
  ELSE IF IncludesAny(lowerPlace, {<<20844, 22290>>, S("park")}) THEN 3000
  ELSE 8000

HeuristicCrowdFactor(lowerCrowd) ==
  IF IncludesAny(lowerCrowd, JpLightWords \cup {S("light")}) THEN NumDec(5, 1)
  ELSE IF IncludesAny(lowerCrowd, JpBusyWords \cup {S("crowded")})
       THEN NumDec(15, 1)
  ELSE NumInt(1)

HeuristicFeatureFactor(featuresText) ==
  IF Trim(featuresText) = <<>> THEN NumInt(1)
  ELSE IF IncludesAny(ToLowerCase(featuresText), {<<33464, 33021>>, S("celebrity")})
       THEN NumDec(1, 3)
  ELSE NumDec(25, 2)

\* radiusKm = Math.max(0.05, radiusM / 1000), radiusM being 1000 unless
\* radius_m is a positive number
HeuristicRadiusKm(radius_m) ==
  MathMax(NumDec(5, 2),
          NumDivPow10(IF radius_m.t = "number" /\ NumGt(radius_m.n, NumInt(0))
                      THEN radius_m.n ELSE NumInt(1000), 3))

\* count and range of heuristicEstimate around the count estimated
HeuristicAround(estimated) ==
  [count |-> estimated,
   range |-> [min |-> MathMax(NumInt(0), MathRound(NumMul(estimated, NumDec(5, 1)))),
              max |-> MathMax(MathMax(NumInt(0),
                                      MathRound(NumMul(estimated, NumDec(5, 1)))),
                              MathRound(NumMul(estimated, NumDec(15, 1))))]]

HeuristicEstimated(density, radiusKm, crowdFactor, featureFactor) ==
  MathRound(NumMul(NumMul(NumMul(NumInt(density),
                                 NumMul(NumMul(PI, radiusKm), radiusKm)),
                          crowdFactor), featureFactor))

\* heuristicEstimate(inputForModel), for texts that are strings or null
heuristicEstimate(inputForModel) ==
  HeuristicAround(
    HeuristicEstimated(
      HeuristicDensity(ToLowerCase(StringOf(Or(inputForModel.place_type,
                                               Or(inputForModel.address, Str(<<>>)))))),
      HeuristicRadiusKm(inputForModel.radius_m),
      HeuristicCrowdFactor(ToLowerCase(StringOf(Or(inputForModel.crowd_level, Str(<<>>))))),
      HeuristicFeatureFactor(StringOf(Or(inputForModel.features, Str(<<>>))))))

\* the range made from the count when the answer has neither end
FilledRange(count, min, max) ==
  IF min = Null /\ max = Null /\ count # Null
  THEN [count |-> count,
        min |-> Num(MathMax(NumInt(0), MathRound(NumMul(count.n, NumDec(7, 1))))),
        max |-> Num(MathMax(MathMax(NumInt(0),
                                    MathRound(NumMul(count.n, NumDec(7, 1)))),
                            MathRound(NumMul(count.n, NumDec(13, 1)))))]
  ELSE [count |-> count, min |-> min, max |-> max]

\* the count made from the middle of the range when the answer has none
FilledCount(t) ==
  IF t.count = Null /\ t.min # Null /\ t.max # Null
  THEN [t EXCEPT !.count = Num(MathRound(NumMul(NumAdd(t.min.n, t.max.n),
                                                NumDec(5, 1))))]
  ELSE t

\* finalResult of the first handler, from count, min and max
FinalFrom(t, heuristic) ==
  IF t.count = Null \/ t.min = Null \/ t.max = Null THEN heuristic
  ELSE IF NumLt(t.max.n, t.min.n) THEN heuristic
  ELSE [count |-> MathRound(t.count.n),
        range |-> [min |-> MathRound(t.min.n), max |-> MathRound(t.max.n)]]

\* whether String(x) throws for an element of a list
MapThrows(v) == v.t = "array" /\ \E k \in 1..Len(v.a) : ConversionThrows(v.a[k])

\* whether the first handler's repair of a parsed object throws
FirstRepairThrows(parsed) ==
  \/ ConversionThrows(Get(parsed, "count"))
  \/ /\ Truthy(Get(parsed, "range"))
     /\ \/ ConversionThrows(Get(Get(parsed, "range"), "min"))
        \/ ConversionThrows(Get(Get(parsed, "range"), "max"))
  \/ ConversionThrows(Get(parsed, "confidence"))
  \/ MapThrows(Get(parsed, "assumptions"))
  \/ MapThrows(Get(parsed, "notes"))

ZeroEstimate == [count |-> NumInt(0), range |-> [min |-> NumInt(0), max |-> NumInt(0)]]

\* count and range of what the first handler sends for the parsed answer
FirstHandlerSends(parsed, inputForModel) ==
  IF ~Truthy(parsed) \/ parsed.t \notin {"object", "badobject", "array"}
  THEN heuristicEstimate(inputForModel)
  ELSE IF FirstRepairThrows(parsed) THEN ZeroEstimate
  ELSE FinalFrom(
         FilledCount(
           FilledRange(numOrNull(Get(parsed, "count")),
                       IF Truthy(Get(parsed, "range"))
                       THEN numOrNull(Get(Get(parsed, "range"), "min")) ELSE Null,
                       IF Truthy(Get(parsed, "range"))
                       THEN numOrNull(Get(Get(parsed, "range"), "max")) ELSE Null)),
         heuristicEstimate(inputForModel))

LooseBaseDensity == 400

\* neutralEstimate of the second and third handler
LooseNeutral(i) ==
  NeutralOf(MathMax(NumInt(0),
                    MathRound(NumMul(NumMul(CircleArea(i.radius_m),
                                            NumInt(LooseBaseDensity)),
                                     CrowdFactor(i.crowd)))))

CountAndRange(e) == [count |-> e.count, range |-> e.range]

\* count and range of what the second and the third handler send for the
\* data of the answer: execOnce's estimate, unvalidated, and the neutral
\* estimate when both attempts throw on the same answer
LooseHandlerSends(data, i) ==
  CountAndRange(IF ~Truthy(data) \/ normalizeResult(data).threw
                THEN LooseNeutral(i)
                ELSE normalizeResult(data).v)

\* requests: what the first handler keeps of the body (inputForModel), and
\* the canonical radius and crowd of the other two
ContractRequests ==
  {[address |-> Str(S("Shibuya Station")), radius_m |-> Num(NumInt(500)),
    place_type |-> Null, features |-> Str(<<>>), crowd_level |-> Null],
   [address |-> Str(<<>>), radius_m |-> Null,
    place_type |-> Str(<<20844, 22290>>), features |-> Str(S("joggers")),
    crowd_level |-> Str(<<28151, 38609>>)],
   [address |-> Str(S("Office tower")), radius_m |-> Num(NumInt(0 - 20)),
    place_type |-> Null, features |-> Str(S("a celebrity")),
    crowd_level |-> Str(S("light"))]}

\* the canonical input the other two handlers derive from such a body
LooseInputOf(r) ==
  [radius_m |-> LooseRadius(NumberOf(Coalesce(r.radius_m, Num(NumInt(DefaultRadius))))),
   crowd |-> TextEmpty]

InitContract ==
  /\ BenchInit
  /\ given \in [data : ParsedValues \cup {Null}, request : ContractRequests]

FirstSends ==
  /\ Len(got) = 0
  /\ got' = <<FirstHandlerSends(given.data, given.request)>>
  /\ UNCHANGED <<handlerVars, given>>

LooseSends ==
  /\ Len(got) = 1
  /\ got' = Append(got, LooseHandlerSends(given.data, LooseInputOf(given.request)))
  /\ UNCHANGED <<handlerVars, given>>

NextContract == FirstSends \/ LooseSends

SpecContract == InitContract /\ [][NextContract]_vars

\* C19: every status-200 estimate of the three handlers has range.min >= 0
\* and range.max >= range.min, whatever range the model returned
RangeContract ==
  \A k \in 1..Len(got) :
    /\ NumGe(got[k].range.min, NumInt(0))
    /\ NumGe(got[k].range.max, got[k].range.min)

\* ------------------------------------------------------------------------
\* The handlers that reject a body their Schema does not accept
\* (src/unnamed/part_001, the first handler of part_003, part_004)
\* ------------------------------------------------------------------------
StrictVariants == {"part_001", "part_003", "part_004"}

StrictAddressMin(variant) == IF variant = "part_004" THEN 2 ELSE 1
StrictAddressMax == 200
StrictFeatureMax(variant) == IF variant = "part_004" THEN 50 ELSE 100

\* let body = req.body; a text is parsed, and what does not parse is {}
StrictBodyOf(reqBody) ==
  IF reqBody.t = "string" THEN ParsedOr(JSONParse(reqBody.s), Obj(NoProps))
  ELSE reqBody

\* body?.radius_m ?? body?.radius
StrictRawRadius(body) == Coalesce(Get(body, "radius_m"), Get(body, "radius"))

\* normalized = { ...body, radius_m: Number(...) }: the fields the Schema
\* reads; Number(...) throws for a value that has no primitive
StrictNormalized(body) ==
  IF ConversionThrows(StrictRawRadius(body)) THEN Threw
  ELSE Ok([address |-> Get(body, "address"), crowd |-> Get(body, "crowd"),
           feature |-> Get(body, "feature"),
           radius_m |-> NumberOf(StrictRawRadius(body))])

\* z.string().min(lo).max(hi)
StrictStringOk(v, lo, hi) == v.t = "string" /\ Len(v.s) >= lo /\ Len(v.s) <= hi

\* z.number().int().min(10).max(40_075_000)
StrictRadiusOk(x) ==
  IsInteger(x) /\ NumGe(x, NumInt(MinRadius)) /\ NumLe(x, NumInt(MaxRadius))

\* parsed.error.issues of Schema.safeParse(normalized): the paths of the
\* fields the Schema does not accept, in the Schema's order
StrictIssues(variant, n) ==
  (IF StrictStringOk(n.address, StrictAddressMin(variant), StrictAddressMax)
   THEN <<>> ELSE <<"address">>)
  \o (IF n.crowd.t = "string" /\ n.crowd.s \in CrowdJp THEN <<>> ELSE <<"crowd">>)
  \o (IF StrictStringOk(n.feature, 1, StrictFeatureMax(variant))
      THEN <<>> ELSE <<"feature">>)
  \o (IF StrictRadiusOk(n.radius_m) THEN <<>> ELSE <<"radius_m">>)

\* parsed.data: the crowd in the internal vocabulary
StrictData(n) ==
  [address |-> n.address.s,
   crowd |-> IF n.crowd.s = JpEmpty THEN TextEmpty
             ELSE IF n.crowd.s = JpNormal THEN TextNormal ELSE TextCrowded,
   feature |-> n.feature.s, radius_m |-> n.radius_m]

StrictBaseDensity == 400
StrictSpreadBase == 20

StrictCrowdFactor(variant, crowd) ==
  IF variant = "part_001"
  THEN (IF crowd = TextCrowded THEN NumInt(2)
        ELSE IF crowd = TextNormal THEN NumInt(1) ELSE NumDec(4, 1))
  ELSE (IF crowd = TextCrowded THEN NumDec(18, 1)
        ELSE IF crowd = TextNormal THEN NumInt(1) ELSE NumDec(5, 1))

StrictSpread(est) ==
  MathRound(NumAdd(NumMul(est, NumDec(4, 1)), NumInt(StrictSpreadBase)))

StrictAround(est) ==
  [count |-> est,
   range |-> [min |-> MathMax(NumInt(0), NumSub(est, StrictSpread(est))),
              max |-> NumAdd(est, StrictSpread(est))]]

fallbackEstimate(variant, data) ==
  StrictAround(MathMax(NumInt(0),
                       MathRound(NumMul(NumMul(CircleArea(data.radius_m),
                                               NumInt(StrictBaseDensity)),
                                        StrictCrowdFactor(variant, data.crowd)))))

\* part_004 answers with no count instead of an estimate of its own
StrictNoCount == [count |-> NaN, range |-> [min |-> NumInt(0), max |-> NumInt(0)]]

SensitiveWords ==
  {S("race"), S("ethnicity"), S("religion"), S("sexual"), S("gender identity"),
   S("political"), S("disease"), S("medical"), S("disability")}

isSensitiveFeature(txt) == IncludesAny(ToLowerCase(txt), SensitiveWords)

\* what the handler does, in its order: a response that is sent, or a call
\* of the gateway
StrictSent(status, details, what, estimate) ==
  [event |-> "sent", status |-> status, details |-> details, kind |-> what,
   estimate |-> estimate]
StrictCalled ==
  [event |-> "called", status |-> 0, details |-> <<>>, kind |-> "none",
   estimate |-> StrictNoCount]

\* what the handler answers on its own when it cannot use the gateway
StrictOwnAnswer(variant, data) ==
  IF variant = "part_004" THEN StrictSent(200, <<>>, "safety", StrictNoCount)
  ELSE StrictSent(200, <<>>, "fallback", fallbackEstimate(variant, data))

\* the answers of the gateway: a count, or a text that is not JSON
StrictModelAnswers ==
  {StrictSent(200, <<>>, "model", [StrictNoCount EXCEPT !.count = NumInt(42)]),
   StrictSent(200, <<>>, "parse error", StrictNoCount)}

\* --- the requests -------------------------------------------------------
StrictAddresses ==
  {Undef, Str(<<>>), Str(S("A")), Str(S("Ueno Park")),
   Str(Repeat(122, StrictAddressMax)), Str(Repeat(122, StrictAddressMax + OverLength)),
   Num(NumInt(7)), BadObj}
StrictCrowds == {Undef, Str(JpNormal), Str(JpCrowded), Str(TextNormal), Str(S("busy"))}
StrictFeatures ==
  {Undef, Str(<<>>), Str(S("people")), Str(S("Religion")),
   Str(Repeat(120, StrictFeatureMax("part_004"))),
   Str(Repeat(120, StrictFeatureMax("part_004") + OverLength)),
   Str(Repeat(120, StrictFeatureMax("part_001"))),
   Str(Repeat(120, StrictFeatureMax("part_001") + OverLength))}
StrictRadii ==
  {Undef, Null, Str(S("abc")), Str(S("500")), Str(S("Infinity")), Bool(TRUE),
   Num(NumDec(104, 1)), Num(NumInt(MinRadius - 1)), Num(NumInt(MinRadius)),
   Num(NumInt(DefaultRadius)), Num(NumInt(MaxRadius)), Num(NumInt(MaxRadius + 1)),
   Arr(<<Num(NumInt(300))>>), Obj(NoProps), BadObj}

\* each field varied against a well-formed rest; the alias of the radius;
\* a text, a text that is not JSON, and no body
StrictBodies ==
  {RawBody(a, Str(JpNormal), Str(S("people")), Num(NumInt(DefaultRadius))) :
     a \in StrictAddresses}
  \cup {RawBody(Str(S("Ueno Park")), c, Str(S("people")), Num(NumInt(DefaultRadius))) :
          c \in StrictCrowds}
  \cup {RawBody(Str(S("Ueno Park")), Str(JpNormal), f, Num(NumInt(DefaultRadius))) :
          f \in StrictFeatures}
  \cup {RawBody(Str(S("Ueno Park")), Str(JpCrowded), Str(S("people")), r) :
          r \in StrictRadii}
  \cup {Obj([address |-> Str(S("Ueno Park")), crowd |-> Str(JpCrowded),
             feature |-> Str(S("people")), radius |-> Num(NumInt(750))]),
        Obj([address |-> Str(S("Ueno Park")), crowd |-> Str(JpCrowded),
             feature |-> Str(S("people")), radius |-> BadObj]),
        BodyText, BodyGarbageText, BodyMissing, Null}

InitStrict ==
  /\ BenchInit
  /\ given \in [variant : StrictVariants, body : StrictBodies, key : BOOLEAN]

\* whether the handler gets as far as parsed.data
StrictAccepts(variant, body) ==
  /\ ~StrictNormalized(body).threw
  /\ StrictIssues(variant, StrictNormalized(body).v) = <<>>

StrictGated(variant, data) == variant = "part_004" /\ isSensitiveFeature(data.feature)

\* Number(...) throws: catch (err), status 500
StrictThrows ==
  /\ Len(got) = 0
  /\ StrictNormalized(StrictBodyOf(given.body)).threw
  /\ got' = <<StrictSent(500, <<>>, "server error", StrictNoCount)>>
  /\ UNCHANGED <<handlerVars, given>>

\* if (!parsed.success) return res.status(400).json({ error, details })
StrictRejects ==
  /\ Len(got) = 0
  /\ \E n \in {StrictNormalized(StrictBodyOf(given.body))} :
       /\ ~n.threw
       /\ StrictIssues(given.variant, n.v) # <<>>
       /\ got' = <<StrictSent(400, StrictIssues(given.variant, n.v), "invalid input",
                              StrictNoCount)>>
  /\ UNCHANGED <<handlerVars, given>>

\* part_004: if (isSensitiveFeature(feature)) return res.status(200)...
StrictGates ==
  /\ Len(got) = 0
  /\ StrictAccepts(given.variant, StrictBodyOf(given.body))
  /\ StrictGated(given.variant, StrictData(StrictNormalized(StrictBodyOf(given.body)).v))
  /\ got' = <<StrictSent(200, <<>>, "safety", StrictNoCount)>>
  /\ UNCHANGED <<handlerVars, given>>

\* if (!process.env.OPENAI_API_KEY) return res.status(200)...
StrictAnswersWithoutKey ==
  /\ Len(got) = 0
  /\ ~given.key
  /\ StrictAccepts(given.variant, StrictBodyOf(given.body))
  /\ \E data \in {StrictData(StrictNormalized(StrictBodyOf(given.body)).v)} :
       /\ ~StrictGated(given.variant, data)
       /\ got' = <<StrictOwnAnswer(given.variant, data)>>
  /\ UNCHANGED <<handlerVars, given>>

\* the first call of the gateway
StrictCalls ==
  /\ Len(got) = 0
  /\ given.key
  /\ StrictAccepts(given.variant, StrictBodyOf(given.body))
  /\ ~StrictGated(given.variant, StrictData(StrictNormalized(StrictBodyOf(given.body)).v))
  /\ got' = <<StrictCalled>>
  /\ UNCHANGED <<handlerVars, given>>

\* the call resolves: the answer, or the words for a text that is not JSON
StrictAnswers ==
  /\ Len(got) > 0
  /\ got[Len(got)].event = "called"
  /\ \E answer \in StrictModelAnswers : got' = Append(got, answer)
  /\ UNCHANGED <<handlerVars, given>>

\* part_003: the call rejects and is made once more
StrictRetries ==
  /\ given.variant = "part_003"
  /\ got = <<StrictCalled>>
  /\ got' = Append(got, StrictCalled)
  /\ UNCHANGED <<handlerVars, given>>

\* the last call rejects: the handler answers on its own
StrictFallsBack ==
  /\ Len(got) = (IF given.variant = "part_003" THEN 2 ELSE 1)
  /\ got[Len(got)].event = "called"
  /\ got' = Append(got, StrictOwnAnswer(given.variant,
                          StrictData(StrictNormalized(StrictBodyOf(given.body)).v)))
  /\ UNCHANGED <<handlerVars, given>>

NextStrict ==
  \/ StrictThrows
  \/ StrictRejects
  \/ StrictGates
  \/ StrictAnswersWithoutKey
  \/ StrictCalls
  \/ StrictAnswers
  \/ StrictRetries
  \/ StrictFallsBack

SpecStrict == InitStrict /\ [][NextStrict]_vars

\* whether the body satisfies the Schema: its fields as they are, and its
\* radius a number or the text of one
StrictWellFormed(variant, body) ==
  /\ StrictStringOk(Get(body, "address"), StrictAddressMin(variant), StrictAddressMax)
  /\ Get(body, "crowd").t = "string" /\ Get(body, "crowd").s \in CrowdJp
  /\ StrictStringOk(Get(body, "feature"), 1, StrictFeatureMax(variant))
  /\ ~ConversionThrows(StrictRawRadius(body))
  /\ StrictRadiusOk(NumberOf(StrictRawRadius(body)))

\* C20: in the handlers with a strict Schema a POST whose body fails the
\* validation is answered with status 400 and the issues, and for it the
\* gateway is not called and no fallback estimate is produced
InvalidBodyRejected ==
  (Len(got) > 0 /\ ~StrictWellFormed(given.variant, StrictBodyOf(given.body))) =>
    /\ Len(got) = 1
    /\ got[1].event = "sent"
    /\ got[1].status = 400
    /\ got[1].details # <<>>
    /\ got[1].kind = "invalid input"

\* --- the nationality filter of a request ---------------------------------
\* feature fields: foreigner terms, Japanese terms, both, neither, no text
FilterFeatures ==
  {Undef, Str(<<>>), Num(NumInt(5)), Str(S("commuters")),
   Str(S("foreigners")), Str(S("  Foreigner  ")), Str(JpForeigner \o JpTokyoStation),
   Str(S("Non-Japanese tourists")), Str(S("non japanese")), Str(S("NONJAPANESE")),
   Str(S("Japanese people")), Str(S("JAPANESE")), Str(JpJapanese),
   Str(S("Japanese and foreigners")),
   Str(S("foreigner ") \o Repeat(120, MaxFeatureLen))}

\* the rest of a request: address, crowd, radius, lang field and headers
FilterRests ==
  {[address |-> Str(S("Ueno Park")), crowd |-> Str(TextNormal),
    radius_m |-> Num(NumInt(DefaultRadius)), lang |-> Undef, headers |-> Obj(NoProps)],
   [address |-> Str(JpTokyoStation), crowd |-> Str(JpCrowded),
    radius_m |-> Num(NumInt(MaxRadius)), lang |-> Undef, headers |-> Obj(NoProps)],
   [address |-> Str(S("Ueno Park")), crowd |-> Str(TextEmpty),
    radius_m |-> Str(S("abc")), lang |-> Str(S("ja")), headers |-> Obj(NoProps)],
   [address |-> Undef, crowd |-> Undef, radius_m |-> Undef, lang |-> Str(S("EN")),
    headers |-> Obj("accept-language" :> Str(S("ja-JP,ja;q=0.9")))],
   [address |-> Str(S("Japanese garden")), crowd |-> Str(S("busy")),
    radius_m |-> Num(NumInt(MinRadius)), lang |-> Undef,
    headers |-> Obj("x-ui-lang" :> Str(S("en")))]}

FilterBody(rest, feature) ==
  Obj(Props([address |-> rest.address, crowd |-> rest.crowd, feature |-> feature,
             radius_m |-> rest.radius_m, lang |-> rest.lang]))

\* const nationalityFilter = detectNationalityFilter(input.feature), with
\* the language the handler has settled before it
FilterOfRequest(rest, feature) ==
  [lang |-> detectTargetLang(rest.headers, ParseBody(FilterBody(rest, feature)),
                             Derived(FilterBody(rest, feature)).input).v,
   filter |-> detectNationalityFilter(Derived(FilterBody(rest, feature)).input.feature)]

InitFilter ==
  /\ BenchInit
  /\ given \in [feature : FilterFeatures, first : FilterRests, second : FilterRests]

FilterFirst ==
  /\ Len(got) = 0
  /\ got' = <<FilterOfRequest(given.first, given.feature)>>
  /\ UNCHANGED <<handlerVars, given>>

FilterSecond ==
  /\ Len(got) = 1
  /\ got' = Append(got, FilterOfRequest(given.second, given.feature))
  /\ UNCHANGED <<handlerVars, given>>

NextFilter == FilterFirst \/ FilterSecond

SpecFilter == InitFilter /\ [][NextFilter]_vars

\* the text of a feature field, in lower case
FeatureText(v) == IF v.t = "undefined" THEN <<>> ELSE ToLowerCase(StringOf(v))

NamesForeigner(v) ==
  \/ Includes(FeatureText(v), S("foreigner"))
  \/ Includes(FeatureText(v), JpForeigner)
  \/ \E sep \in {<<>>, S("-"), S(" ")} :
       Includes(FeatureText(v), S("non") \o sep \o S("japanese"))

NamesJapanese(v) ==
  Includes(FeatureText(v), S("japanese")) \/ Includes(FeatureText(v), JpJapanese)

\* C21: the nationality filter depends on the feature text alone: it is
\* foreigner_only when the feature names foreigners ("non-Japanese"
\* included), japanese_only when it names only Japanese, all otherwise,
\* whatever the address, crowd, radius, lang field and headers are
FilterFromFeatureOnly ==
  \A k \in 1..Len(got) :
    /\ got[k].filter = got[1].filter
    /\ got[k].filter =
         (IF NamesForeigner(given.feature) THEN "foreigner_only"
          ELSE IF NamesJapanese(given.feature) THEN "japanese_only" ELSE "all")

\* two requests that differ in language and in everything but the feature,
\* whose feature reads "non-Japanese", are both answered foreigner_only
NonJapaneseUnderTwoLanguages ==
  /\ Len(got) = 2
  /\ got[1].lang # got[2].lang
  /\ given.first.address # given.second.address
  /\ given.feature = Str(S("Non-Japanese tourists"))
  /\ got[2].filter = "foreigner_only"

\* --- the language of the response ----------------------------------------
\* the fields of a body that name a language
LangFields ==
  {[lang |-> Undef, ui_lang |-> Undef, locale |-> Undef],
   [lang |-> Str(S("ja")), ui_lang |-> Undef, locale |-> Undef],
   [lang |-> Str(S("EN")), ui_lang |-> Str(S("ja")), locale |-> Undef],
   [lang |-> Str(S("ja-JP")), ui_lang |-> Undef, locale |-> Undef],
   [lang |-> Undef, ui_lang |-> Str(S("en")), locale |-> Str(S("ja"))],
   [lang |-> Str(<<>>), ui_lang |-> Null, locale |-> Str(S("Ja"))],
   [lang |-> Str(S("fr")), ui_lang |-> Undef, locale |-> Undef],
   [lang |-> Num(NumInt(5)), ui_lang |-> Undef, locale |-> Undef],
   [lang |-> BadObj, ui_lang |-> Undef, locale |-> Undef]}

LangHeaders ==
  {Obj(NoProps),
   Obj("accept-language" :> Str(S("ja-JP,ja;q=0.9"))),
   Obj("accept-language" :> Str(S("en-US,en;q=0.8"))),
   Obj("accept-language" :> Str(S("fr-FR,ja;q=0.5"))),
   Obj("x-ui-lang" :> Str(S("JA")) @@ "accept-language" :> Str(S("en-US"))),
   Obj("x-ui-lang" :> Str(S("English")) @@ "accept-language" :> Str(S("ja")))}

\* address, crowd and feature in Latin and in Japanese script
LangTexts ==
  {[address |-> Str(S("Ueno Park")), crowd |-> Str(TextNormal), feature |-> Str(S("joggers"))],
   [address |-> Str(JpTokyoStation), crowd |-> Str(TextNormal), feature |-> Str(S("joggers"))],
   [address |-> Str(S("Ueno Park")), crowd |-> Str(JpCrowded), feature |-> Str(S("joggers"))],
   [address |-> Str(S("Ueno Park")), crowd |-> Str(TextNormal), feature |-> Str(JpForeigner)],
   [address |-> Undef, crowd |-> Undef, feature |-> Undef],
   [address |-> Str(S("Ueno Park")), crowd |-> BadObj, feature |-> Str(S("joggers"))]}

LangBody(fields, text) ==
  Obj(Props([address |-> text.address, crowd |-> text.crowd, feature |-> text.feature,
             radius_m |-> Num(NumInt(DefaultRadius)), lang |-> fields.lang,
             ui_lang |-> fields.ui_lang, locale |-> fields.locale]))

InitLang ==
  /\ BenchInit
  /\ given \in [fields : LangFields, headers : LangHeaders, text : LangTexts]

\* const targetLang = detectTargetLang(req, body, input)
DetectLanguage ==
  /\ Len(got) = 0
  /\ \E body \in {LangBody(given.fields, given.text)} :
       got' = <<detectTargetLang(given.headers, ParseBody(body), Derived(body).input)>>
  /\ UNCHANGED <<handlerVars, given>>

\* the request is read again under the other rule of the same precedence:
\* the language of the text fields alone
DetectLanguageOfText ==
  /\ Len(got) = 1
  /\ \E body \in {LangBody([lang |-> Undef, ui_lang |-> Undef, locale |-> Undef],
                          given.text)} :
       got' = Append(got, detectTargetLang(Obj(NoProps), ParseBody(body),
                                           Derived(body).input))
  /\ UNCHANGED <<handlerVars, given>>

NextLang == DetectLanguage \/ DetectLanguageOfText

SpecLang == InitLang /\ [][NextLang]_vars

\* the first of lang, ui_lang and locale that is set, in lower case when it
\* is a text
NamedLanguage(fields) ==
  LET e == Or(fields.lang, Or(fields.ui_lang, Or(fields.locale, Str(<<>>))))
  IN  IF e.t = "string" THEN ToLowerCase(e.s) ELSE <<>>

\* whether the language header, x-ui-lang or else accept-language, starts
\* with a word
HeaderStarts(headers, word) ==
  LET h == Or(Get(headers, "x-ui-lang"), Or(Get(headers, "accept-language"), Str(<<>>)))
  IN  h.t = "string" /\ StartsWith(ToLowerCase(h.s), word)

IsJapaneseText(v) == v.t = "string" /\ \E i \in 1..Len(v.s) : IsJapaneseChar(v.s[i])

ExpectedLang(fields, headers, text) ==
  IF NamedLanguage(fields) = S("ja") THEN "ja"
  ELSE IF NamedLanguage(fields) = S("en") THEN "en"
  ELSE IF HeaderStarts(headers, S("ja")) THEN "ja"
  ELSE IF HeaderStarts(headers, S("en")) THEN "en"
  ELSE IF IsJapaneseText(text.address) \/ IsJapaneseText(text.feature)
          \/ IsJapaneseText(text.crowd) THEN "ja"
  ELSE "en"

\* C22: detectTargetLang resolves the language by strict precedence: a ja
\* or en named by the body, else a header that starts with ja or en, else
\* ja when address, feature or crowd holds Japanese characters, else en;
\* the result is always ja or en
LangByPrecedence ==
  Len(got) > 0 =>
    /\ ~got[1].threw
    /\ got[1].v \in {"ja", "en"}
    /\ got[1].v = ExpectedLang(given.fields, given.headers, given.text)

\* --- the extraction of JSON from the text of an answer --------------------
NewLine == <<10>>

ParsePrefixes == {<<>>, S("Here is the estimate:") \o NewLine, S("{note} ")}
ParseFences ==
  {<<>>,
   FenceJson \o NewLine \o JsonGood \o NewLine \o Fence,
   Fence \o S("JSON") \o S(" ") \o JsonNumber \o S(" ") \o Fence \o NewLine,
   FenceJson \o S(" not json ") \o Fence,
   FenceJson \o Fence,
   FenceJson \o NewLine \o JsonSparse}
ParseMiddles ==
  {<<>>, JsonEmpty, JsonNegative, JsonNumber, JsonNullText, S("I cannot estimate this."),
   S("} {")}
ParseSuffixes == {<<>>, S(" (approximate)"), S(" }")}

ParseTexts ==
  {Str(p \o f \o b \o q) :
     p \in ParsePrefixes, f \in ParseFences, b \in ParseMiddles, q \in ParseSuffixes}

\* what execOnce may hold as the content of an answer that is not a text
ParseOthers == {Undef, Null, Num(NumInt(42)), Obj(NoProps), Arr(<<>>), BadObj}

InitParse ==
  /\ BenchInit
  /\ given \in ParseTexts \cup ParseOthers

TryParse ==
  /\ Len(got) = 0
  /\ got' = <<tryParseJSON(given)>>
  /\ UNCHANGED <<handlerVars, given>>

\* the same content once more: the function keeps no state
TryParseAgain ==
  /\ Len(got) = 1
  /\ got' = Append(got, tryParseJSON(given))
  /\ UNCHANGED <<handlerVars, given>>

NextParse == TryParse \/ TryParseAgain

SpecParse == InitParse /\ [][NextParse]_vars

\* the texts the three strategies hand to JSON.parse, in their order: the
\* inside of the fenced block when there is one and it is not empty, the
\* text from the first "{" to the last "}" when there are both in this
\* order, the whole text
FencedCandidate(s) ==
  IF FencedMatch(s).found /\ FencedMatch(s).inner # <<>>
  THEN <<Trim(FencedMatch(s).inner)>> ELSE <<>>

BracesCandidate(s) ==
  IF \E i, j \in 1..Len(s) : i < j /\ s[i] = 123 /\ s[j] = 125
  THEN <<SubSeq(s, CHOOSE i \in 1..Len(s) :
                     s[i] = 123 /\ \A k \in 1..(i - 1) : s[k] # 123,
                CHOOSE j \in 1..Len(s) :
                     s[j] = 125 /\ \A k \in (j + 1)..Len(s) : s[k] # 125)>>
  ELSE <<>>

Candidates(s) == FencedCandidate(s) \o BracesCandidate(s) \o <<s>>

Parses(text) == ~JSONParse(text).threw

\* the value of the first candidate that parses, null when none does
FirstParsed(c) ==
  IF \E i \in 1..Len(c) : Parses(c[i])
  THEN JSONParse(c[CHOOSE i \in 1..Len(c) :
                     Parses(c[i]) /\ \A k \in 1..(i - 1) : ~Parses(c[k])]).v
  ELSE Null

\* C23: tryParseJSON returns the value of the first of its three strategies
\* (fenced block, first "{" to last "}", whole text) that parses, and null
\* when its argument is not a string or no strategy parses
FirstStrategyWins ==
  \A k \in 1..Len(got) :
    got[k] = (IF given.t = "string" THEN FirstParsed(Candidates(given.s)) ELSE Null)

\* a text whose fenced block does not parse and whose braces do
BracesAfterFailedFence ==
  /\ Len(got) > 0
  /\ given.t = "string"
  /\ Len(Candidates(given.s)) = 3
  /\ ~Parses(Candidates(given.s)[1])
  /\ Parses(Candidates(given.s)[2])
  /\ got[1] = JSONParse(Candidates(given.s)[2]).v
  /\ got[1] # Null

\* --- the place type of an address and a feature ---------------------------
PlaceAddresses ==
  {<<>>, S("Main street 5"), S("Shibuya Station"), JpTokyoStation, S("Narita AIRPORT terminal"),
   S("Outlet Mall"), S("Central Park"), <<20844, 22290>>, S("Apartment block"),
   S("Office tower"), S("High School"), S("Old Temple"), S("Business"),
   S("Airport Plaza near the Park"), S("Small cafe")}
PlaceFeatures ==
  {S("people"), S("tourists"), S("students on campus"), S("Shoppers"),
   S("train spotters"), S("joggers in the square"), S("office workers"),
   S("district"), <<35251, 20809, 23458>>, S("residents")}

InitPlace ==
  /\ BenchInit
  /\ given \in [address : PlaceAddresses, feature : PlaceFeatures]

DetectPlace ==
  /\ Len(got) = 0
  /\ got' = <<detectPlaceType(given.address, given.feature)>>
  /\ UNCHANGED <<handlerVars, given>>

\* the place type of the address alone, as for a feature without keywords
DetectPlaceOfAddress ==
  /\ Len(got) = 1
  /\ got' = Append(got, detectPlaceType(given.address, <<>>))
  /\ UNCHANGED <<handlerVars, given>>

NextPlace == DetectPlace \/ DetectPlaceOfAddress

SpecPlace == InitPlace /\ [][NextPlace]_vars

\* the categories in their priority, each with its keywords
PlacePriority ==
  <<[type |-> "station", words |-> StationWords],
    [type |-> "airport", words |-> AirportWords],
    [type |-> "mall", words |-> MallWords],
    [type |-> "park", words |-> ParkWords],
    [type |-> "residential", words |-> ResidentialWords],
    [type |-> "office", words |-> OfficeWords],
    [type |-> "school", words |-> SchoolWords],
    [type |-> "tourist", words |-> TouristWords]>>

\* the categories of which the text holds a keyword
Matching(text) ==
  {k \in 1..Len(PlacePriority) : IncludesAny(ToLowerCase(text), PlacePriority[k].words)}

HighestPriority(text) ==
  IF Matching(text) = {} THEN "generic"
  ELSE PlacePriority[CHOOSE k \in Matching(text) : \A j \in Matching(text) : k <= j].type

\* C24: detectPlaceType returns the category of highest priority (station,
\* airport, mall, park, residential, office, school, tourist) of which the
\* lower-cased text of address and feature holds a keyword, and generic
\* when it holds none
PlaceByPriority ==
  /\ Len(got) >= 1 => got[1] = HighestPriority(given.address \o S(" ") \o given.feature)
  /\ Len(got) = 2 => got[2] = HighestPriority(given.address \o S(" "))

\* a text with keywords of three categories, among them airport and
\* station, read as a station
SeveralCategoriesHighestWins ==
  /\ Len(got) >= 1
  /\ Cardinality(Matching(given.address \o S(" ") \o given.feature)) >= 3
  /\ 2 \in Matching(given.address \o S(" ") \o given.feature)
  /\ got[1] = "station"

\* --- the local time of a request -------------------------------------------
TwoDigits(n) == <<48 + (n \div 10), 48 + (n % 10)>>

\* the week from Sunday 7 January 2024 to Saturday 13 January 2024
WeekDays == 0..6
Hours == 0..23

\* "2024-01-DDTHH:15", with the seconds or without
TimeText(weekday, hour, seconds) ==
  S("2024-01-") \o TwoDigits(7 + weekday) \o S("T") \o TwoDigits(hour)
  \o S(":15") \o (IF seconds THEN S(":30") ELSE <<>>)

\* the local times of the model, and what is no local time: absent, empty,
\* and texts that name no date
LocalTimes ==
  {[value |-> Str(TimeText(w, h, s)), known |-> TRUE, weekday |-> w, hour |-> h] :
     w \in WeekDays, h \in Hours, s \in BOOLEAN}
  \cup {[value |-> v, known |-> FALSE, weekday |-> 0, hour |-> 0] :
          v \in {Undef, Null, Str(<<>>), Str(S("abc")), Str(S("2024-13-45T99:99")),
                 Str(S("noon-ish today"))}}

InitTime ==
  /\ BenchInit
  /\ given \in LocalTimes

ParseTime ==
  /\ Len(got) = 0
  /\ got' = <<parseLocalTimeInfo(given.value)>>
  /\ UNCHANGED <<handlerVars, given>>

NextTime == ParseTime

SpecTime == InitTime /\ [][NextTime]_vars

\* the hour table
SlotTable ==
  [h \in Hours |->
     CASE h \in 7..9 -> "morning_commute"
       [] h \in 11..13 -> "lunch"
       [] h \in 17..20 -> "evening_commute"
       [] h \in {22, 23} \cup 0..4 -> "night"
       [] h \in {5, 6} -> "early_morning"
       [] h \in {10} \cup 14..16 -> "daytime"
       [] h = 21 -> "other"]

\* C25: parseLocalTimeInfo gives every local hour the slot of the hour
\* table, weekend exactly on weekday 0 and 6, and the slot unknown with no
\* hour and no weekday when local_time_iso is absent or names no date
SlotByHourTable ==
  Len(got) = 1 =>
    IF given.known
    THEN /\ got[1].slot = SlotTable[given.hour]
         /\ got[1].hour = Num(NumInt(given.hour))
         /\ got[1].weekday = Num(NumInt(given.weekday))
         /\ got[1].weekend = Bool(given.weekday \in {0, 6})
    ELSE /\ got[1].slot = "unknown"
         /\ got[1].hour = Null
         /\ got[1].weekday = Null
         /\ got[1].weekend = Null

\* two in the morning of a Saturday: night, on a weekend
NightAfterMidnight ==
  /\ Len(got) = 1
  /\ given.known /\ given.hour = 2 /\ given.weekday = 6
  /\ got[1].slot = "night"
  /\ got[1].weekend = Bool(TRUE)

\* --- one call of the gateway (callXAIWithTimeout) -------------------------
\* what happens in a call, in its order: a request that is sent, a response
\* that arrives, the call throwing, the call returning
GatewayEvent(event, field, signal, h, json) ==
  [event |-> event, field |-> field, signal |-> signal, http |-> h, json |-> json]

GatewayFetch(field, signal) == GatewayEvent("fetch", field, signal, NoHttp, Undef)
GatewayResponse(h) == GatewayEvent("response", "none", "none", h, Undef)
GatewayThrew == GatewayEvent("threw", "none", "none", NoHttp, Undef)
GatewayReturned(json) == GatewayEvent("returned", "none", "none", NoHttp, json)

\* the signal of the call: the controller's in the first attempt of the
\* handler, none in the second
GatewaySignals == {"controller", "none"}

\* the responses of the gateway; with a signal, its abort can end the
\* reading of a body
GatewayResponses(signal) ==
  HttpResponses
  \cup (IF signal = "controller"
        THEN {[h EXCEPT !.readable = FALSE] : h \in HttpResponses} ELSE {})

InitGateway ==
  /\ BenchInit
  /\ given \in [signal : GatewaySignals]

\* let resp = await fetch(XAI_URL, { ..., body: JSON.stringify(body1), signal })
GatewayFirstFetch ==
  /\ Len(got) = 0
  /\ got' = <<GatewayFetch("max_output_tokens", given.signal)>>
  /\ UNCHANGED <<handlerVars, given>>

GatewayFetchResolves ==
  /\ Len(got) > 0
  /\ got[Len(got)].event = "fetch"
  /\ \E h \in GatewayResponses(given.signal) : got' = Append(got, GatewayResponse(h))
  /\ UNCHANGED <<handlerVars, given>>

\* a network error, or the abort of the signal
GatewayFetchRejects ==
  /\ Len(got) > 0
  /\ got[Len(got)].event = "fetch"
  /\ got' = Append(got, GatewayThrew)
  /\ UNCHANGED <<handlerVars, given>>

\* if (resp.status === 400 && /max_output_tokens/i.test(txt)) resp = await fetch(...)
GatewaySecondFetch ==
  /\ Len(got) = 2
  /\ got[2].event = "response"
  /\ ~got[2].http.ok /\ got[2].http.readable
  /\ RetryTextMatches(got[2].http)
  /\ got' = Append(got, GatewayFetch("max_tokens", given.signal))
  /\ UNCHANGED <<handlerVars, given>>

\* await resp.text() rejects, or if (!resp.ok) throw new Error(msg)
GatewayThrows ==
  /\ Len(got) > 0
  /\ got[Len(got)].event = "response"
  /\ ~got[Len(got)].http.ok
  /\ ~(Len(got) = 2 /\ got[2].http.readable /\ RetryTextMatches(got[2].http))
  /\ got' = Append(got, GatewayThrew)
  /\ UNCHANGED <<handlerVars, given>>

\* return json
GatewayReturns ==
  /\ Len(got) > 0
  /\ got[Len(got)].event = "response"
  /\ got[Len(got)].http.ok
  /\ got' = Append(got, GatewayReturned(JsonOf(got[Len(got)].http)))
  /\ UNCHANGED <<handlerVars, given>>

NextGateway ==
  \/ GatewayFirstFetch
  \/ GatewayFetchResolves
  \/ GatewayFetchRejects
  \/ GatewaySecondFetch
  \/ GatewayThrows
  \/ GatewayReturns

SpecGateway == InitGateway /\ [][NextGateway]_vars

FetchesOf(log) == {k \in 1..Len(log) : log[k].event = "fetch"}

\* C26: one call of the gateway sends at most two requests; the second,
\* with max_tokens in place of max_output_tokens and the same signal, only
\* after a first response of status 400 whose text names
\* max_output_tokens; the call throws when its last response is not ok and
\* returns the body of that response otherwise
AtMostTwoRequests ==
  /\ Cardinality(FetchesOf(got)) <= 2
  /\ \A k \in FetchesOf(got) :
       IF k = 1 THEN got[k].field = "max_output_tokens" /\ got[k].signal = given.signal
       ELSE /\ k = 3
            /\ got[2].event = "response"
            /\ got[2].http.status = 400
            /\ Includes(ToLowerCase(got[2].http.text), S("max_output_tokens"))
            /\ got[3].field = "max_tokens"
            /\ got[3].signal = got[1].signal
  /\ \A k \in 2..Len(got) :
       /\ got[k].event = "returned" =>
            /\ got[k - 1].event = "response" /\ got[k - 1].http.ok
            /\ got[k].json = JsonOf(got[k - 1].http)
            /\ k = Len(got)
       /\ (got[k].event = "threw" /\ got[k - 1].event = "response") =>
            ~got[k - 1].http.ok /\ k = Len(got)
       /\ (got[k - 1].event = "response" /\ got[k - 1].http.ok) =>
            got[k].event = "returned"

\* a call that returns the answer to its second request
ReturnedAfterSecondRequest ==
  /\ Len(got) = 5
  /\ got[3].field = "max_tokens"
  /\ got[3].signal = "controller"
  /\ got[5].event = "returned"
  /\ got[5].json = Completion(Str(JsonGood))

\* C27: the handler sends exactly one response per request: never a second
\* one, never none when it has finished, and with the timer of the first
\* attempt no longer armed when a response follows that attempt
ExactlyOneResponse ==
  /\ sent <= 1
  /\ Finished => sent = 1
  /\ (sent = 1 /\ attempt >= 1) => timer # "armed"

\* C30: in execOnce the neutral estimate replaces the model's answer whenever
\* the model text gives no JSON object, a text that parses to a number, a
\* string, an array, a boolean or null included; normalizeResult is applied
\* to parsed objects only
NeutralUnlessObject ==
  (pc = "done" /\ kind \in {"repaired", "unparsable"}) =>
    \/ AnswerData(JsonOf(http)).v.t \in {"object", "badobject"}
    \/ /\ kind = "unparsable"
       /\ pre = Localize(neutralEstimate(input), targetLang)

\* the estimate the k-th call of the validator was given
ArgumentOf(k) == IF k = 1 THEN given.out ELSE got[k - 1].result

\* C28: serverSideSelfValidate always replaces the range by
\* [round(0.7 x count), max(that, round(1.4 x count))] of the final count,
\* clamped or not, and passes confidence and assumptions through unchanged
RangeFromFinalCount ==
  \A k \in 1..Len(got) :
    /\ got[k].result.range.min = MathRound(NumMul(got[k].result.count, NumDec(7, 1)))
    /\ got[k].result.range.max =
         MathMax(got[k].result.range.min,
                 MathRound(NumMul(got[k].result.count, NumDec(14, 1))))
    /\ got[k].result.confidence = ArgumentOf(k).confidence
    /\ got[k].result.assumptions = ArgumentOf(k).assumptions

\* an answer of the model whose count stays as it is and whose own range,
\* 90 to 160 around 120, is replaced
ModelRangeReplaced ==
  /\ Len(got) = 1
  /\ given.out.count = NumInt(120)
  /\ got[1].result.count = NumInt(120)
  /\ given.out.range = [min |-> NumInt(90), max |-> NumInt(160)]
  /\ got[1].result.range = [min |-> NumInt(84), max |-> NumInt(168)]

\* C29: serverSideSelfValidate does not modify the estimate it is given: the
\* notes array of the argument has after the call the length and the
\* contents it had before (count, range, confidence and assumptions of the
\* argument are never assigned; the result is a record of its own)
ArgumentNotesUntouched ==
  \A k \in 1..Len(got) : got[k].pushed = ArgumentOf(k).notes
====
